---- MODULE Spec2Model ----
(***************************************************************************)
(* A model of the newsbot core: the bounded concurrent summarizer and one   *)
(* summarization job (src/src/summarize.py), URL admission control, the    *)
(* dedup cache and the ingestion pipeline (src/src/collect.py), the retry  *)
(* policy (src/src/utils/retry.py) and the entry point (src/main.py).      *)
(*                                                                         *)
(* Each component has its own specification over its own variables; the    *)
(* variables of the other components stay at their initial values.         *)
(***************************************************************************)
EXTENDS Integers, Sequences, FiniteSets, TLC

VARIABLES
    \* ---- summarize_articles (src/src/summarize.py) ----
    articles,               \* input list: the length of each article's text
    max_tokens,             \* the max_tokens argument: [none, v]
    spc,                    \* position of _run: "schedule", "gather", "returned"
                            \* or "raised"
    si,                     \* loop variable i of the scheduling loop
    budget_used,
    total_failed,
    skipped_due_to_budget,
    scheduled_tasks,        \* article indices, in scheduling order
    started,                \* number of scheduled tasks that reached `async with`
    job,                    \* article index -> "unscheduled", "created",
                            \* "waiting", "running", "ok", "failed" or
                            \* "cancelled"
    semaphore,              \* value of asyncio.Semaphore
    waiters,                \* FIFO of tasks blocked in semaphore.acquire()
    retried,                \* per running job: the attempts tenacity retried so far
    sresult,                \* the SummarizationResult, once returned
    \* ---- validate_article_url (src/src/collect.py) ----
    url,                    \* the candidate URL: [scheme, host] as written
    allowlist,              \* the allowlist argument: a set of domain strings
    dns,                    \* what getaddrinfo resolves the host to (a set)
    vresult,                \* the returned (allowed, reason) once validated
    \* ---- ArticleCache (src/src/collect.py) ----
    cache,                  \* self.cache: URL -> isoformat timestamp
    cache_form,             \* what self.cache is: "dict", "array" (a JSON
                            \* array was loaded) or "none" (no instance)
    store,                  \* the content of cache_file
    store_form,             \* what cache_file holds: "table" (a JSON object),
                            \* "array", "invalid_json", "unreadable" or
                            \* "undecodable" (bytes that are not UTF-8)
    now,                    \* datetime.now(), in hours
    duration_hours,         \* self.duration_hours
    cop,                    \* the last cache operation and what it returned
    \* ---- the retry policy (src/src/utils/retry.py) ----
    rpc,                    \* "call", "returned" or "raised"
    attempt_number,         \* tenacity's attempt_number
    waits,                  \* the waits slept between attempts
    lastexc,                \* the exception raised by the latest attempt
    propagated,             \* the exception the caller of the wrapper sees
    \* ---- collect_articles (src/src/collect.py) ----
    feeds,                  \* per feed, the entry links it serves
    allow_file,             \* the allowlist file: [exists, lines]
    cpc,                    \* position of collect_articles
    runs,                   \* number of runs started
    urls,                   \* urls, then unique_urls
    new_urls,
    allowed_domains,
    secure_urls,
    ci,                     \* index of the loop in progress
    carticles,              \* the articles accepted so far
    admitted,               \* URLs validate_article_url allowed in this run
    rejected,               \* URLs validate_article_url refused in this run
    fetched,                \* URLs extract_article_content was called on
    added,                  \* URLs cache.add was called on in this run
    cresult,                \* "none", "returned", "raised" or "summarized"
    pending,                \* an accepted article that main did not summarize
    \* ---- main (src/main.py) ----
    mpc,                    \* position of main: "config", "collect",
                            \* "summarize", "compose", "save", "publish", "done"
    config,                 \* max_articles_per_run and max_tokens_per_run
    metrics,                \* the counters of the metrics dict
    called,                 \* the steps main has called so far
    caught,                 \* the step whose exception `except Exception` caught
    error_draft,            \* what became of the error draft of the handler
    exit_code,              \* the value main returned, -1 while it runs
    \* ---- one summarization job (src/src/summarize.py) ----
    jpc,                    \* position of the job: "prompt", "generate", "done"
    jresult,                \* what the job returned: "pending", "summary", "none"
    jfailed,                \* what the job added to total_failed
    jerror,                 \* where the error that failed the job came from
    \* ---- the response parsing of summarize_article (src/src/summarize.py) ----
    ppc,                    \* "call" until the response is parsed, then "returned"
    max_points_env,         \* the environment variable SUMMARY_MAX_POINTS
    response,               \* the text llm_client.generate returned
    summary_points          \* the 'summary' list of the returned record

sumVars == <<articles, max_tokens, spc, si, budget_used, total_failed,
             skipped_due_to_budget, scheduled_tasks, started, job, semaphore,
             waiters, retried, sresult>>

valVars == <<url, allowlist, dns, vresult>>

cacheVars == <<cache, cache_form, store, store_form, now, duration_hours, cop>>

retryVars == <<rpc, attempt_number, waits, lastexc, propagated>>

collectVars == <<feeds, allow_file, cpc, runs, urls, new_urls, allowed_domains,
                 secure_urls, ci, carticles, admitted, rejected, fetched, added,
                 cresult, pending>>

mainVars == <<mpc, config, metrics, called, caught, error_draft, exit_code>>

jobVars == <<jpc, jresult, jfailed, jerror>>

parseVars == <<ppc, max_points_env, response, summary_points>>

vars == <<sumVars, valVars, cacheVars, retryVars, collectVars, mainVars, jobVars,
          parseVars>>

\* what the actions of one component leave alone
notSum == <<parseVars, valVars, cacheVars, retryVars, collectVars, mainVars, jobVars>>

notVal == <<parseVars, sumVars, cacheVars, retryVars, collectVars, mainVars, jobVars>>

notCache == <<parseVars, sumVars, valVars, retryVars, collectVars, mainVars, jobVars>>

notRetry == <<parseVars, sumVars, valVars, cacheVars, collectVars, mainVars, jobVars>>

\* the ingestion pipeline works on the cache
notCollect == <<sumVars, valVars, retryVars, mainVars, jobVars, parseVars>>

\* main calls the summarizer
notMain == <<valVars, cacheVars, retryVars, collectVars, jobVars, parseVars>>

\* a job calls the retried LLMClient.generate
notJob == <<sumVars, valVars, cacheVars, collectVars, mainVars, parseVars>>

notParse == <<sumVars, valVars, cacheVars, retryVars, collectVars, mainVars,
              jobVars>>

----------------------------------------------------------------------------
(* Generic helpers *)

Range(s) == {s[i] : i \in DOMAIN s}

Max(a, b) == IF a >= b THEN a ELSE b

Min(a, b) == IF a <= b THEN a ELSE b

RECURSIVE SeqsUpTo(_, _)
\* all sequences over S of length at most n
SeqsUpTo(S, n) ==
    IF n = 0 THEN {<<>>}
    ELSE LET shorter == SeqsUpTo(S, n - 1)
         IN  shorter \cup {Append(s, x) : s \in shorter, x \in S}

----------------------------------------------------------------------------
(* Summarizer: src/src/summarize.py *)

SUMMARY_CONCURRENCY == 5

\* stop_after_attempt(5) of the retry policy (src/src/utils/retry.py)
StopAfterAttempt == 5

StopOneLater(n) == n > StopAfterAttempt

\* stop_after_attempt: stop once attempt_number reached the limit
Stop(n) == n >= StopAfterAttempt

\* Bounds of the summarizer model
MaxArticles == 6

\* lengths of article texts: empty, and 400 characters (estimated cost 300)
BodyLens == {0, 400}

NoBudget == [none |-> TRUE, v |-> 0]

Budget(n) == [none |-> FALSE, v |-> n]

\* max_tokens values: None, 0, the cost of one empty article, and two budgets
Budgets == {NoBudget, Budget(0), Budget(100), Budget(450), Budget(650)}

\* Python truthiness of an Optional[int]
Truthy(mt) == ~mt.none /\ mt.v # 0

EstimateWithoutOverhead(len) ==
    IF len = 0 THEN 100 ELSE Max(100, len \div 4)

\* _estimate_tokens_for_article(text), text given by its length
estimate_tokens_for_article(len) ==
    IF len = 0 THEN 100 ELSE Max(100, (len \div 4) + 200)

\* `max_tokens and (budget_used + estimated) > max_tokens`
BudgetExceeded(mt, used, estimated) ==
    Truthy(mt) /\ (used + estimated) > mt.v

SkippedCountOffByOne(n, i) == n - i

\* `skipped_due_to_budget = len(articles) - (i - 1)`
SkippedCount(n, i) == n - (i - 1)

CanAcquireAlways(value) == TRUE

CanAcquireNever(value) == value > SUMMARY_CONCURRENCY

\* asyncio.Semaphore.acquire() proceeds without blocking iff the value is positive
CanAcquire(value) == value > 0

IncFailedPerAttempt(failed) == failed + attempt_number

IncFailedLost(failed) == IF failed >= 1 THEN failed ELSE failed + 1

\* `total_failed += 1`, executed by the coroutine on the event-loop thread
IncFailed(failed) == failed + 1

NoResult == [returned |-> FALSE, summaries |-> <<>>, failed |-> 0,
             estimated_tokens |-> 0, skipped_due_to_budget |-> 0]

InitSummarize ==
    /\ articles \in SeqsUpTo(BodyLens, MaxArticles)
    /\ max_tokens \in Budgets
    /\ spc = IF Len(articles) = 0 THEN "gather" ELSE "schedule"
    /\ si = 1
    /\ budget_used = 0
    /\ total_failed = 0
    /\ skipped_due_to_budget = 0
    /\ scheduled_tasks = <<>>
    /\ started = 0
    /\ job = [i \in 1..Len(articles) |-> "unscheduled"]
    /\ semaphore = SUMMARY_CONCURRENCY
    /\ waiters = <<>>
    /\ retried = [i \in 1..Len(articles) |-> 0]
    /\ sresult = NoResult

\* One iteration of `for i, article in enumerate(articles, 1)` (lines 191-203)
ConsiderArticle ==
    /\ spc = "schedule"
    /\ LET estimated == estimate_tokens_for_article(articles[si])
       IN  IF BudgetExceeded(max_tokens, budget_used, estimated)
           THEN /\ skipped_due_to_budget' = SkippedCount(Len(articles), si)
                /\ spc' = "gather"
                /\ UNCHANGED <<si, budget_used, scheduled_tasks, job>>
           ELSE /\ budget_used' = budget_used + estimated
                /\ scheduled_tasks' = Append(scheduled_tasks, si)
                /\ job' = [job EXCEPT ![si] = "created"]
                /\ si' = si + 1
                /\ spc' = IF si = Len(articles) THEN "gather" ELSE "schedule"
                /\ UNCHANGED skipped_due_to_budget
    /\ UNCHANGED <<articles, max_tokens, total_failed, started, semaphore,
                   waiters, retried, sresult>>
    /\ UNCHANGED notSum

\* asyncio.gather starts the tasks in creation order; each enters
\* `async with semaphore` (line 168): it takes a slot and submits
\* summarize_article to the executor, or blocks in the semaphore's FIFO.
StartTask ==
    /\ spc = "gather"
    /\ started < Len(scheduled_tasks)
    /\ LET i == scheduled_tasks[started + 1]
       IN  IF CanAcquire(semaphore) /\ waiters = <<>>
           THEN /\ semaphore' = semaphore - 1
                /\ job' = [job EXCEPT ![i] = "running"]
                /\ UNCHANGED waiters
           ELSE /\ waiters' = Append(waiters, i)
                /\ job' = [job EXCEPT ![i] = "waiting"]
                /\ UNCHANGED semaphore
    /\ started' = started + 1
    /\ UNCHANGED <<articles, max_tokens, spc, si, budget_used, total_failed,
                   skipped_due_to_budget, scheduled_tasks, retried, sresult>>
    /\ UNCHANGED notSum

\* A blocked task at the head of the semaphore's FIFO is woken after a release
WakeWaiter ==
    /\ spc = "gather"
    /\ waiters # <<>>
    /\ CanAcquire(semaphore)
    /\ semaphore' = semaphore - 1
    /\ job' = [job EXCEPT ![Head(waiters)] = "running"]
    /\ waiters' = Tail(waiters)
    /\ UNCHANGED <<articles, max_tokens, spc, si, budget_used, total_failed,
                   skipped_due_to_budget, scheduled_tasks, started, retried,
                   sresult>>
    /\ UNCHANGED notSum

\* the jobs whose LLM calls meet errors that are retried: the first one
\* started and the first one that has to wait for a slot
RetriedJobs == {1, SUMMARY_CONCURRENCY + 1}

\* an attempt of LLMClient.generate inside the running job i failed with an
\* error _should_retry retries and tenacity does not stop (the attempt made
\* is number retried[i] + 1): it sleeps the backoff in the worker thread and
\* calls again; the job keeps its slot and its thread
AttemptRetried(i) ==
    /\ spc = "gather"
    /\ job[i] = "running"
    /\ i \in RetriedJobs
    /\ ~Stop(retried[i] + 1)
    /\ retried' = [retried EXCEPT ![i] = @ + 1]
    /\ UNCHANGED <<articles, max_tokens, spc, si, budget_used, total_failed,
                   skipped_due_to_budget, scheduled_tasks, started, job,
                   semaphore, waiters, sresult>>
    /\ UNCHANGED notSum

\* summarize_article returned in the worker thread and the coroutine resumed:
\* it returns the summary and leaves `async with` (lines 176-181)
CompleteOk(i) ==
    /\ spc = "gather"
    /\ job[i] = "running"
    /\ job' = [job EXCEPT ![i] = "ok"]
    /\ retried' = [retried EXCEPT ![i] = 0]
    /\ semaphore' = semaphore + 1
    /\ UNCHANGED <<articles, max_tokens, spc, si, budget_used, total_failed,
                   skipped_due_to_budget, scheduled_tasks, started, waiters,
                   sresult>>
    /\ UNCHANGED notSum

\* summarize_article raised: `except Exception` counts the failure and the
\* coroutine returns None (lines 182-189)
CompleteRaise(i) ==
    /\ spc = "gather"
    /\ job[i] = "running"
    /\ job' = [job EXCEPT ![i] = "failed"]
    /\ retried' = [retried EXCEPT ![i] = 0]
    /\ total_failed' = IncFailed(total_failed)
    /\ semaphore' = semaphore + 1
    /\ UNCHANGED <<articles, max_tokens, spc, si, budget_used,
                   skipped_due_to_budget, scheduled_tasks, started, waiters,
                   sresult>>
    /\ UNCHANGED notSum

SummariesUnfiltered == scheduled_tasks

\* `summaries = [result for result in results if result]` (results are in task order)
Summaries == SelectSeq(scheduled_tasks, LAMBDA i : job[i] = "ok")

GatherDoneFirstCompleted(tasks, jobs, n) ==
    tasks = <<>> \/ \E k \in 1..Len(tasks) : jobs[tasks[k]] \in {"ok", "failed"}

\* `await asyncio.gather(*scheduled_tasks)` (line 207) resumes _run once each
\* of the tasks has returned; with no task the await is skipped (line 206)
GatherDone(tasks, jobs, n) ==
    /\ n = Len(tasks)
    /\ \A k \in 1..Len(tasks) : jobs[tasks[k]] \in {"ok", "failed"}

\* gather has every result: build the SummarizationResult (lines 205-223)
ReturnResult ==
    /\ spc = "gather"
    /\ GatherDone(scheduled_tasks, job, started)
    /\ sresult' = [returned |-> TRUE,
                   summaries |-> Summaries,
                   failed |-> total_failed,
                   estimated_tokens |-> budget_used,
                   skipped_due_to_budget |-> skipped_due_to_budget]
    /\ spc' = "returned"
    /\ UNCHANGED <<articles, max_tokens, si, budget_used, total_failed,
                   skipped_due_to_budget, scheduled_tasks, started, job,
                   semaphore, waiters, retried>>
    /\ UNCHANGED notSum

\* The run is interrupted while gather waits (KeyboardInterrupt in
\* asyncio.run, line 226): the unfinished tasks are cancelled, CancelledError
\* is not an Exception and passes the handler of line 182, a cancelled task
\* leaves `async with`, and summarize_articles raises instead of returning.
Interrupted ==
    /\ spc = "gather"
    /\ ~GatherDone(scheduled_tasks, job, started)
    /\ job' = [i \in DOMAIN job |->
                  IF job[i] \in {"created", "waiting", "running"}
                  THEN "cancelled" ELSE job[i]]
    /\ waiters' = <<>>
    /\ retried' = [i \in DOMAIN retried |-> 0]
    /\ semaphore' = semaphore + Cardinality({i \in DOMAIN job : job[i] = "running"})
    /\ spc' = "raised"
    /\ UNCHANGED <<articles, max_tokens, si, budget_used, total_failed,
                   skipped_due_to_budget, scheduled_tasks, started, sresult>>
    /\ UNCHANGED notSum

NextSummarize ==
    \/ ConsiderArticle
    \/ StartTask
    \/ WakeWaiter
    \/ \E i \in 1..Len(articles) : CompleteOk(i)
    \/ \E i \in 1..Len(articles) : CompleteRaise(i)
    \/ ReturnResult
    \/ Interrupted

\* a run that is not interrupted, with the attempts of each job
NextSummarizeRun ==
    \/ ConsiderArticle
    \/ StartTask
    \/ WakeWaiter
    \/ \E i \in 1..Len(articles) : AttemptRetried(i)
    \/ \E i \in 1..Len(articles) : CompleteOk(i)
    \/ \E i \in 1..Len(articles) : CompleteRaise(i)
    \/ ReturnResult

\* the attempt in progress in job i ends: it is retried, returns or raises
AttemptEnds(i) ==
    i \in DOMAIN job /\ (AttemptRetried(i) \/ CompleteOk(i) \/ CompleteRaise(i))

\* the event loop runs every coroutine that is ready (the loop of _run, the
\* tasks gather started, the waiter a release woke, _run after gather), and
\* every attempt of an LLM call eventually returns or raises
FairSummarize ==
    /\ WF_vars(ConsiderArticle)
    /\ WF_vars(StartTask)
    /\ WF_vars(WakeWaiter)
    /\ WF_vars(ReturnResult)
    /\ \A i \in 1..MaxArticles : WF_vars(AttemptEnds(i))


----------------------------------------------------------------------------
(* Claims about the summarizer *)

Running == {i \in DOMAIN job : job[i] = "running"}

\* C1: at every moment at most SUMMARY_CONCURRENCY (5) summarization jobs
\* hold a slot and execute their LLM call, whatever the number of articles
\* and the interleaving of starts and completions.
C1_ConcurrencyCap == Cardinality(Running) <= SUMMARY_CONCURRENCY

\* the cap binds: five jobs run while another scheduled job waits for a slot
C1_Witness ==
    /\ Cardinality(Running) = SUMMARY_CONCURRENCY
    /\ waiters # <<>>

RECURSIVE PrefixCost(_, _)
\* cumulative estimated cost of the first k articles of arts
PrefixCost(arts, k) ==
    IF k = 0 THEN 0
    ELSE PrefixCost(arts, k - 1) + estimate_tokens_for_article(arts[k])

\* length of the longest prefix of arts whose cumulative cost is at most b
LongestPrefix(arts, b) ==
    CHOOSE p \in 0..Len(arts) :
        /\ PrefixCost(arts, p) <= b
        /\ \A q \in (p + 1)..Len(arts) : PrefixCost(arts, q) > b

\* C2: with a token budget B configured, exactly the longest input-order
\* prefix whose cumulative estimated cost is <= B is scheduled; the first
\* article over the budget and all articles after it are counted in
\* skipped_due_to_budget; estimated_tokens is the cost of the scheduled prefix
\* and never exceeds B. Costs [300,300,300] with B = 650 schedule the first two.
C2_BudgetPrefix ==
    (sresult.returned /\ Truthy(max_tokens)) =>
        LET n == Len(articles)
            p == LongestPrefix(articles, max_tokens.v)
        IN  /\ scheduled_tasks = [k \in 1..p |-> k]
            /\ \A i \in 1..n : (job[i] = "unscheduled") <=> (i > p)
            /\ sresult.skipped_due_to_budget = n - p
            /\ sresult.estimated_tokens = PrefixCost(articles, p)
            /\ sresult.estimated_tokens <= max_tokens.v
            /\ (articles = <<400, 400, 400>> /\ max_tokens = Budget(650)) =>
                   (scheduled_tasks = <<1, 2>> /\ sresult.skipped_due_to_budget = 1)

\* the cutoff skips a later, cheaper article that would still have fitted
C2_Witness ==
    /\ sresult.returned
    /\ articles = <<400, 400, 0>>
    /\ max_tokens = Budget(450)
    /\ scheduled_tasks = <<1>>
    /\ sresult.skipped_due_to_budget = 2
    /\ sresult.estimated_tokens = 300

Raised == {i \in DOMAIN job : job[i] = "failed"}

Succeeded == {i \in DOMAIN job : job[i] = "ok"}

\* C3: when summarize_articles returns, every scheduled job has run to
\* completion, failed equals exactly the number of jobs that raised, and there
\* is one summary for each scheduled job that did not raise, under every
\* interleaving of completions.
C3_ExactFailureCount ==
    sresult.returned =>
        /\ \A k \in 1..Len(scheduled_tasks) : job[scheduled_tasks[k]] \in {"ok", "failed"}
        /\ sresult.failed = Cardinality(Raised)
        /\ Len(sresult.summaries) = Len(scheduled_tasks) - Cardinality(Raised)
        /\ Range(sresult.summaries) = Succeeded

\* one of three raising gives failed = 1 and two summaries, or two jobs
\* raise among more jobs than there are slots
C3_Witness ==
    /\ sresult.returned
    /\ \/ /\ Len(scheduled_tasks) = 3
          /\ Raised = {2}
          /\ sresult.failed = 1
          /\ Len(sresult.summaries) = 2
       \/ /\ Len(scheduled_tasks) > SUMMARY_CONCURRENCY
          /\ Cardinality(Raised) = 2
          /\ sresult.failed = 2

\* C11: summarize_articles returns its result only after every scheduled job
\* has completed or failed: when the result is returned no scheduled job is
\* pending, waiting for a slot or running, none was cancelled, every slot is
\* free again, and the result accounts for every scheduled job (it is never a
\* partial aggregate).
C11_BatchBarrier ==
    sresult.returned =>
        /\ spc = "returned"
        /\ \A i \in DOMAIN job :
               job[i] \notin {"created", "waiting", "running", "cancelled"}
        /\ started = Len(scheduled_tasks)
        /\ waiters = <<>>
        /\ semaphore = SUMMARY_CONCURRENCY
        /\ Len(sresult.summaries) + sresult.failed = Len(scheduled_tasks)
        /\ \A k \in DOMAIN scheduled_tasks :
               job[scheduled_tasks[k]] = "ok" =>
                   scheduled_tasks[k] \in Range(sresult.summaries)

\* a result returned for more jobs than there are slots, one of which failed
C11_Witness ==
    /\ sresult.returned
    /\ Len(scheduled_tasks) > SUMMARY_CONCURRENCY
    /\ Cardinality(Raised) = 1
    /\ Len(sresult.summaries) = Len(scheduled_tasks) - 1

\* SummarizationResult.limit_reached (lines 30-32)
limit_reached(r) == r.skipped_due_to_budget > 0

\* C20: for every input list, budget and pattern of job failures the result
\* satisfies len(summaries) + failed + skipped_due_to_budget = len(articles);
\* limit_reached holds iff skipped_due_to_budget > 0, which is iff some article
\* was left unscheduled; with no budget configured (None or 0) every article
\* is scheduled and skipped_due_to_budget = 0.
C20_Conservation ==
    sresult.returned =>
        /\ Len(sresult.summaries) + sresult.failed + sresult.skipped_due_to_budget
               = Len(articles)
        /\ limit_reached(sresult) <=> (sresult.skipped_due_to_budget > 0)
        /\ limit_reached(sresult) <=> (Len(scheduled_tasks) < Len(articles))
        /\ ~Truthy(max_tokens) =>
               /\ scheduled_tasks = [k \in 1..Len(articles) |-> k]
               /\ sresult.skipped_due_to_budget = 0
               /\ ~limit_reached(sresult)

\* one summary, one failure and one article skipped for the budget
C20_Witness ==
    /\ sresult.returned
    /\ articles = <<400, 400, 400>>
    /\ max_tokens = Budget(650)
    /\ Len(sresult.summaries) = 1
    /\ sresult.failed = 1
    /\ sresult.skipped_due_to_budget = 1
    /\ limit_reached(sresult)

RECURSIVE SumSeq(_, _)
\* s[1] + ... + s[k]
SumSeq(s, k) == IF k = 0 THEN 0 ELSE SumSeq(s, k - 1) + s[k]

\* the cost formula of the specification
SpecifiedCost(len) == Max(100, (len \div 4) + 200)

\* the formula for a non-empty body, and 100 for an empty or missing one
AmendedCost(len) == IF len = 0 THEN 100 ELSE SpecifiedCost(len)

\* the result charges cost[i] for each scheduled article, and with a budget
\* configured article i is admitted iff the cost so far plus cost[i] is
\* within the budget (the loop stops at the first article that is not)
ChargedAndAdmittedBy(cost) ==
    LET n == Len(scheduled_tasks)
    IN  /\ sresult.estimated_tokens = SumSeq(cost, n)
        /\ Truthy(max_tokens) =>
               \A i \in 1..Min(n + 1, Len(articles)) :
                   (i <= n) <=> (SumSeq(cost, i - 1) + cost[i] <= max_tokens.v)
        /\ ~Truthy(max_tokens) => n = Len(articles)

\* C30 (as stated): the estimated token cost of an article equals
\* max(100, body_length/4 + 200) (integer division) for every body length,
\* including an empty or missing body, and the budget check admits article i
\* iff budget_used + estimated <= token_budget.
C30_EstimateFormula ==
    sresult.returned =>
        ChargedAndAdmittedBy([i \in DOMAIN articles |-> SpecifiedCost(articles[i])])

\* C30 (amended): the estimated cost is max(100, body_length/4 + 200) for
\* every non-empty body and 100 for an empty or missing body; with a budget
\* configured (not None, not 0) article i is admitted iff
\* budget_used + estimated <= token_budget, and without one every article is.
C30_EstimateAmended ==
    sresult.returned =>
        ChargedAndAdmittedBy([i \in DOMAIN articles |-> AmendedCost(articles[i])])

\* an empty body is charged 100 and admitted on a budget of exactly 100; the
\* next one is over the budget
C30_Witness ==
    /\ sresult.returned
    /\ articles = <<0, 0>>
    /\ max_tokens = Budget(100)
    /\ scheduled_tasks = <<1>>
    /\ sresult.estimated_tokens = 100

\* C27: summarize_articles terminates for every finite article list: provided
\* every attempt of an LLM call eventually returns or raises, each scheduled
\* job eventually obtains a concurrency slot, no job makes more than 5
\* attempts, and the run eventually returns its result.
C27_Terminates ==
    /\ [](\A i \in DOMAIN job : retried[i] + 1 <= StopAfterAttempt)
    /\ \A i \in 1..MaxArticles :
           (i \in DOMAIN job /\ job[i] \in {"created", "waiting"})
               ~> (i \in DOMAIN job /\ job[i] = "running")
    /\ <>(spc = "returned" /\ sresult.returned)

\* more jobs than slots: every slot is taken, the last job waits in the
\* semaphore's FIFO and the first job is at its fifth attempt
C27_Witness ==
    /\ Len(articles) = SUMMARY_CONCURRENCY + 1
    /\ semaphore = 0
    /\ job[SUMMARY_CONCURRENCY + 1] = "waiting"
    /\ retried[1] = StopAfterAttempt - 1
    /\ job[1] = "running"

----------------------------------------------------------------------------
(* URL admission control: src/src/collect.py *)
(* Strings are sequences of characters. *)

\* str.lower() on one character of the alphabets used here
LowerChar(c) ==
    CASE c = "A" -> "a"
      [] c = "B" -> "b"
      [] c = "H" -> "h"
      [] c = "T" -> "t"
      [] c = "P" -> "p"
      [] c = "S" -> "s"
      [] OTHER -> c

\* str.lower()
Lower(str) == [k \in 1..Len(str) |-> LowerChar(str[k])]

RECURSIVE StripLeft(_, _)
\* str.lstrip(c)
StripLeft(str, c) ==
    IF str # <<>> /\ Head(str) = c THEN StripLeft(Tail(str), c) ELSE str

RECURSIVE StripRight(_, _)
\* str.rstrip(c)
StripRight(str, c) ==
    IF str # <<>> /\ str[Len(str)] = c
    THEN StripRight(SubSeq(str, 1, Len(str) - 1), c)
    ELSE str

\* str.strip(c)
Strip(str, c) == StripRight(StripLeft(str, c), c)

\* str.endswith(suffix)
EndsWith(str, suffix) ==
    /\ Len(suffix) <= Len(str)
    /\ SubSeq(str, Len(str) - Len(suffix) + 1, Len(str)) = suffix

\* urlparse(url): the scheme and the hostname are lowercased by the parser;
\* a missing hostname is None, which `parsed.hostname or ""` turns into ""
urlparse(u) == [scheme |-> Lower(u.scheme), hostname |-> Lower(u.host)]

\* _normalize_domain(host)
normalize_domain(host) == IF host # <<>> THEN Strip(Lower(host), ".") ELSE <<>>

DomainMatchesSuffixOnly(domain, allowed) == EndsWith(domain, allowed)

\* `domain == allowed or domain.endswith(f".{allowed}")`
DomainMatches(domain, allowed) ==
    domain = allowed \/ EndsWith(domain, <<".">> \o allowed)

\* _domain_in_allowlist(domain, allowlist)
domain_in_allowlist(domain, allowed_set) ==
    \E allowed \in allowed_set : DomainMatches(domain, allowed)

\* IP addresses: version 4 with four octets, version 6 with eight 16-bit groups
IPv4(a, b, c, d) == [v |-> 4, u |-> <<a, b, c, d>>]

IPv6(a, b, c, d, e, f, g, h) == [v |-> 6, u |-> <<a, b, c, d, e, f, g, h>>]

Net(base, prefixlen) == [base |-> base, prefixlen |-> prefixlen]

UnitBits(ip) == IF ip.v = 4 THEN 8 ELSE 16

RECURSIVE Pow2(_)
Pow2(n) == IF n = 0 THEN 1 ELSE 2 * Pow2(n - 1)

RECURSIVE PrefixEq(_, _, _, _)
\* the first `bits` bits of the unit sequences a and b agree
PrefixEq(a, b, bits, unit) ==
    IF bits <= 0 THEN TRUE
    ELSE IF bits >= unit
         THEN Head(a) = Head(b) /\ PrefixEq(Tail(a), Tail(b), bits - unit, unit)
         ELSE (Head(a) \div Pow2(unit - bits)) = (Head(b) \div Pow2(unit - bits))

\* `ip_obj in network` (False when the versions differ)
InNetwork(ip, net) ==
    /\ ip.v = net.base.v
    /\ PrefixEq(ip.u, net.base.u, net.prefixlen, UnitBits(ip))

\* PRIVATE_NETWORKS (lines 19-26)
PRIVATE_NETWORKS ==
    { Net(IPv4(10, 0, 0, 0), 8),
      Net(IPv4(172, 16, 0, 0), 12),
      Net(IPv4(192, 168, 0, 0), 16),
      Net(IPv4(127, 0, 0, 0), 8),
      Net(IPv6(0, 0, 0, 0, 0, 0, 0, 1), 128),
      Net(IPv6(64512, 0, 0, 0, 0, 0, 0, 0), 7) }

\* ipaddress: the networks behind ip_obj.is_private
StdlibPrivateNetworks ==
    { Net(IPv4(0, 0, 0, 0), 8), Net(IPv4(10, 0, 0, 0), 8),
      Net(IPv4(127, 0, 0, 0), 8), Net(IPv4(169, 254, 0, 0), 16),
      Net(IPv4(172, 16, 0, 0), 12), Net(IPv4(192, 0, 0, 0), 29),
      Net(IPv4(192, 0, 0, 170), 31), Net(IPv4(192, 0, 2, 0), 24),
      Net(IPv4(192, 168, 0, 0), 16), Net(IPv4(198, 18, 0, 0), 15),
      Net(IPv4(198, 51, 100, 0), 24), Net(IPv4(203, 0, 113, 0), 24),
      Net(IPv4(240, 0, 0, 0), 4), Net(IPv4(255, 255, 255, 255), 32),
      Net(IPv6(0, 0, 0, 0, 0, 0, 0, 1), 128),
      Net(IPv6(0, 0, 0, 0, 0, 0, 0, 0), 128),
      Net(IPv6(256, 0, 0, 0, 0, 0, 0, 0), 64),
      Net(IPv6(8193, 0, 0, 0, 0, 0, 0, 0), 23),
      Net(IPv6(8193, 2, 0, 0, 0, 0, 0, 0), 48),
      Net(IPv6(8193, 3512, 0, 0, 0, 0, 0, 0), 32),
      Net(IPv6(8193, 16, 0, 0, 0, 0, 0, 0), 28),
      Net(IPv6(64512, 0, 0, 0, 0, 0, 0, 0), 7),
      Net(IPv6(65152, 0, 0, 0, 0, 0, 0, 0), 10) }

is_private(ip) == \E net \in StdlibPrivateNetworks : InNetwork(ip, net)

is_loopback(ip) ==
    \/ InNetwork(ip, Net(IPv4(127, 0, 0, 0), 8))
    \/ ip = IPv6(0, 0, 0, 0, 0, 0, 0, 1)

is_link_local(ip) ==
    \/ InNetwork(ip, Net(IPv4(169, 254, 0, 0), 16))
    \/ InNetwork(ip, Net(IPv6(65152, 0, 0, 0, 0, 0, 0, 0), 10))

is_multicast(ip) ==
    \/ InNetwork(ip, Net(IPv4(224, 0, 0, 0), 4))
    \/ InNetwork(ip, Net(IPv6(65280, 0, 0, 0, 0, 0, 0, 0), 8))

\* _is_public_ip(ip_str)
is_public_ip(ip) ==
    IF is_private(ip) \/ is_loopback(ip) \/ is_link_local(ip) \/ is_multicast(ip)
    THEN FALSE
    ELSE \A net \in PRIVATE_NETWORKS : ~InNetwork(ip, net)

NoIP == [v |-> 0, u |-> <<>>]

Outcome(allowed, reason, ip) == [allowed |-> allowed, reason |-> reason, ip |-> ip]

\* a loop that looks at the first resolved address only
FirstForbiddenHeadOnly(addresses) ==
    IF addresses # <<>> /\ ~is_public_ip(Head(addresses)) THEN Head(addresses) ELSE NoIP

RECURSIVE FirstForbidden(_)
\* the `for ip_str in addresses` loop: the first address that is not public
FirstForbidden(addresses) ==
    IF addresses = <<>> THEN NoIP
    ELSE IF ~is_public_ip(Head(addresses)) THEN Head(addresses)
         ELSE FirstForbidden(Tail(addresses))

HTTPS == <<"h", "t", "t", "p", "s">>

validate_article_url_allowlist_last(u, allowed_set, addresses) ==
    LET parsed == urlparse(u)
        domain == normalize_domain(parsed.hostname)
    IN  IF Lower(parsed.scheme) # HTTPS THEN Outcome(FALSE, "non-https", NoIP)
        ELSE IF domain = <<>> THEN Outcome(FALSE, "missing-host", NoIP)
        ELSE IF addresses = <<>> THEN Outcome(FALSE, "unresolved-host", NoIP)
        ELSE IF FirstForbidden(addresses) # NoIP
             THEN Outcome(FALSE, "forbidden-ip", FirstForbidden(addresses))
        ELSE IF ~domain_in_allowlist(domain, allowed_set)
             THEN Outcome(FALSE, "domain-not-allowlisted", NoIP)
        ELSE Outcome(TRUE, "", NoIP)

\* validate_article_url(url, allowlist); addresses is the list returned by
\* _host_addresses(domain)
validate_article_url(u, allowed_set, addresses) ==
    LET parsed == urlparse(u)
        domain == normalize_domain(parsed.hostname)
    IN  IF Lower(parsed.scheme) # HTTPS THEN Outcome(FALSE, "non-https", NoIP)
        ELSE IF domain = <<>> THEN Outcome(FALSE, "missing-host", NoIP)
        ELSE IF ~domain_in_allowlist(domain, allowed_set)
             THEN Outcome(FALSE, "domain-not-allowlisted", NoIP)
        ELSE IF addresses = <<>> THEN Outcome(FALSE, "unresolved-host", NoIP)
        ELSE IF FirstForbidden(addresses) # NoIP
             THEN Outcome(FALSE, "forbidden-ip", FirstForbidden(addresses))
        ELSE Outcome(TRUE, "", NoIP)

\* Bound of the validator model: the longest hostname drawn
MaxHostLen == 4

HostChars == {"a", "b", "."}

\* hostnames as written in the URL: every string over HostChars up to
\* MaxHostLen, and some with upper-case letters
Hosts ==
    SeqsUpTo(HostChars, MaxHostLen)
        \cup {<<"A">>, <<"B", ".", "a">>, <<"A", ".">>, <<"b", "A">>,
              <<"a", ".", "b", ".", "a">>, <<"A", ".", "b", ".", "a", ".">>}

Schemes ==
    { HTTPS, <<"H", "T", "T", "P", "S">>, <<"h", "t", "t", "p">>, <<>> }

\* allowlists as load_allowlist yields them (non-empty, lower case)
Allowlists ==
    { {<<"a">>}, {<<"b">>}, {<<"b", ".", "a">>}, {<<"a">>, <<"a", ".", "b">>} }

PublicV4 == IPv4(93, 184, 216, 34)

\* addresses a resolver may return
Addresses ==
    { PublicV4, IPv4(172, 32, 0, 1),
      IPv4(10, 0, 0, 5), IPv4(172, 31, 255, 255), IPv4(192, 168, 1, 1),
      IPv4(127, 0, 0, 1), IPv4(169, 254, 169, 254), IPv4(224, 0, 0, 1),
      IPv4(192, 0, 2, 1),
      IPv6(9734, 18176, 0, 0, 0, 0, 0, 4369),
      IPv6(0, 0, 0, 0, 0, 0, 0, 1), IPv6(64786, 0, 0, 0, 0, 0, 0, 1),
      IPv6(65152, 0, 0, 0, 0, 0, 0, 1), IPv6(65282, 0, 0, 0, 0, 0, 0, 1) }

\* resolution results: nothing, one address, or two addresses of which one
\* is a given public or a given private address
AddressSets ==
    {{}} \cup {{x, y} : x \in {PublicV4, IPv4(10, 0, 0, 5)}, y \in Addresses}
         \cup {{x} : x \in Addresses}

\* the orders in which `list({...})` may enumerate a set of addresses
Orderings(S) ==
    {o \in SeqsUpTo(S, Cardinality(S)) : Len(o) = Cardinality(S) /\ Range(o) = S}

NotValidated == [allowed |-> FALSE, reason |-> "not-validated", ip |-> NoIP]

IdleValidate ==
    /\ url = [scheme |-> <<>>, host |-> <<>>]
    /\ allowlist = {}
    /\ dns = {}
    /\ vresult = NotValidated

InitValidate ==
    /\ url \in [scheme : Schemes, host : Hosts]
    /\ allowlist \in Allowlists
    /\ dns \in AddressSets
    /\ vresult = NotValidated

\* one call of validate_article_url(url, allowlist) (lines 123-144)
Validate ==
    /\ vresult = NotValidated
    /\ \E addresses \in Orderings(dns) :
           vresult' = validate_article_url(url, allowlist, addresses)
    /\ UNCHANGED <<url, allowlist, dns>>
    /\ UNCHANGED notVal

NextValidate == Validate

----------------------------------------------------------------------------
(* Claims about admission control *)

Validated == vresult # NotValidated

\* the normalized domain of the URL under validation
UrlDomain == normalize_domain(urlparse(url).hostname)

IsHttps == Lower(url.scheme) = HTTPS

\* the address classes the specification names as unsafe
NamedUnsafe(ip) ==
    \/ InNetwork(ip, Net(IPv4(10, 0, 0, 0), 8))
    \/ InNetwork(ip, Net(IPv4(172, 16, 0, 0), 12))
    \/ InNetwork(ip, Net(IPv4(192, 168, 0, 0), 16))
    \/ InNetwork(ip, Net(IPv4(127, 0, 0, 0), 8))
    \/ ip = IPv6(0, 0, 0, 0, 0, 0, 0, 1)
    \/ InNetwork(ip, Net(IPv4(169, 254, 0, 0), 16))
    \/ InNetwork(ip, Net(IPv6(65152, 0, 0, 0, 0, 0, 0, 0), 10))
    \/ InNetwork(ip, Net(IPv4(224, 0, 0, 0), 4))
    \/ InNetwork(ip, Net(IPv6(65280, 0, 0, 0, 0, 0, 0, 0), 8))
    \/ InNetwork(ip, Net(IPv6(64512, 0, 0, 0, 0, 0, 0, 0), 7))

\* subdomain inclusion on a dot boundary, stated by decomposition:
\* domain = entry, or domain = prefix . "." . entry
DotBoundaryMatch(domain, entry) ==
    \/ domain = entry
    \/ \E k \in 1..Len(domain) :
           /\ domain[k] = "."
           /\ SubSeq(domain, k + 1, Len(domain)) = entry

InAllowlistByDotBoundary(domain, allowed_set) ==
    \E entry \in allowed_set : DotBoundaryMatch(domain, entry)

\* C4: the URL is allowed only if the resolved address set is non-empty and
\* holds no private, loopback, link-local, multicast or unique-local address;
\* for an https URL of an allowlisted domain, one such address among the
\* resolved ones makes the result not allowed with reason forbidden-ip, naming
\* a resolved address that is not public.
C4_EveryAddressPublic ==
    Validated =>
        /\ vresult.allowed =>
               (dns # {} /\ \A ip \in dns : ~NamedUnsafe(ip))
        /\ ( /\ IsHttps
             /\ InAllowlistByDotBoundary(UrlDomain, allowlist)
             /\ \E ip \in dns : NamedUnsafe(ip) ) =>
               /\ ~vresult.allowed
               /\ vresult.reason = "forbidden-ip"
               /\ vresult.ip \in dns
               /\ ~is_public_ip(vresult.ip)

\* an allowlisted host resolving to a public and a private address is rejected
C4_Witness ==
    /\ Validated
    /\ InAllowlistByDotBoundary(UrlDomain, allowlist)
    /\ dns = {PublicV4, IPv4(10, 0, 0, 5)}
    /\ vresult = Outcome(FALSE, "forbidden-ip", IPv4(10, 0, 0, 5))

\* the checks of the algorithm, in order, that the URL fails
FailedChecks ==
    (IF ~IsHttps THEN {1} ELSE {})
        \cup (IF UrlDomain = <<>> THEN {2} ELSE {})
        \cup (IF ~InAllowlistByDotBoundary(UrlDomain, allowlist) THEN {3} ELSE {})
        \cup (IF dns = {} THEN {4} ELSE {})
        \cup (IF \E ip \in dns : ~is_public_ip(ip) THEN {5} ELSE {})

ReasonOfCheck(k) ==
    CASE k = 1 -> "non-https"
      [] k = 2 -> "missing-host"
      [] k = 3 -> "domain-not-allowlisted"
      [] k = 4 -> "unresolved-host"
      [] k = 5 -> "forbidden-ip"

\* C6: the checks apply in the order scheme, host, allowlist, DNS, IP safety
\* and the result reports exactly the first failing one; a scheme other than
\* https gives non-https whatever the domain, allowlist and DNS state, and a
\* non-allowlisted domain gives domain-not-allowlisted whatever it resolves to.
C6_FirstFailingReason ==
    Validated =>
        /\ vresult.allowed <=> (FailedChecks = {})
        /\ FailedChecks # {} =>
               \E k \in FailedChecks :
                   /\ \A j \in FailedChecks : k <= j
                   /\ vresult.reason = ReasonOfCheck(k)
        /\ ~IsHttps => vresult = Outcome(FALSE, "non-https", NoIP)
        /\ (IsHttps /\ UrlDomain # <<>>
                /\ ~InAllowlistByDotBoundary(UrlDomain, allowlist)) =>
               vresult = Outcome(FALSE, "domain-not-allowlisted", NoIP)

\* an https URL of a non-allowlisted domain that resolves to a private
\* address reports the allowlist, not the address
C6_Witness ==
    /\ Validated
    /\ IsHttps
    /\ FailedChecks = {3, 5}
    /\ vresult.reason = "domain-not-allowlisted"

\* C7: a normalized domain passes the allowlist check iff it equals an entry
\* or ends with "." followed by the entry; a.b.a passes for {a} and is allowed
\* when DNS is public, while a domain under another entry or one sharing a
\* suffix without a dot boundary (ba) gets domain-not-allowlisted.
C7_SubdomainOnDotBoundary ==
    (Validated /\ IsHttps /\ UrlDomain # <<>>) =>
        /\ (vresult.reason = "domain-not-allowlisted")
               <=> ~InAllowlistByDotBoundary(UrlDomain, allowlist)
        /\ (UrlDomain = <<"a", ".", "b", ".", "a">> /\ allowlist = {<<"a">>}
                /\ dns = {PublicV4}) => vresult.allowed
        /\ (UrlDomain = <<"a", ".", "b", ".", "a">> /\ allowlist = {<<"b">>}) =>
               vresult.reason = "domain-not-allowlisted"
        /\ (UrlDomain = <<"b", "a">> /\ allowlist = {<<"a">>}) =>
               vresult.reason = "domain-not-allowlisted"

\* a two-level subdomain of an entry, written in mixed case with a trailing
\* dot, is allowed when it resolves to a public address
C7_Witness ==
    /\ Validated
    /\ url.host = <<"A", ".", "b", ".", "a", ".">>
    /\ allowlist = {<<"a">>}
    /\ dns = {PublicV4}
    /\ vresult.allowed

----------------------------------------------------------------------------
(* The dedup cache: class ArticleCache, src/src/collect.py *)

\* Bounds of the cache model
MaxClock == 4

MaxDuration == 2

CacheUrls == {"u1", "u2"}

\* datetime.isoformat(): the time rendered as two decimal digits
isoformat(t) == <<t \div 10, t % 10>>

\* datetime.fromisoformat() accepts a string in the ISO format and raises
\* ValueError for any other
ValidIso(str) == Len(str) = 2 /\ \A k \in 1..2 : str[k] \in 0..9

\* datetime.fromisoformat()
fromisoformat(str) == (str[1] * 10) + str[2]

\* timedelta(hours=h), with the clock counted in hours
timedelta_hours(h) == h

ExpiredAtBoundary(cached_time, duration) ==
    now >= cached_time + timedelta_hours(duration)

\* `datetime.now() > expiry` with expiry = cached_time + timedelta(hours=duration_hours)
Expired(cached_time, duration) ==
    now > cached_time + timedelta_hours(duration)

\* a dict without one key
DelKey(table, key) == [k \in (DOMAIN table) \ {key} |-> table[k]]

\* a dict with one key set
SetKey(table, key, value) ==
    [k \in (DOMAIN table) \cup {key} |-> IF k = key THEN value ELSE table[k]]

EmptyTable == [k \in {} |-> <<>>]

\* the last operation: its name, its argument, the value it returned, the
\* time of the call, the exception it raised ("" when it returned) and what
\* became of its write of the cache file ("none" when it did not write)
NoOp == [op |-> "none", url |-> "", ret |-> FALSE, at |-> 0, raised |-> "",
         wrote |-> "none"]

\* what becomes of a write of the cache file: it succeeds, open() fails, or
\* open(cache_file, 'w') succeeds, which empties the file, and the write of
\* the text fails (IOError in both cases, caught at line 52)
WriteOutcomes == {"ok", "open_failed", "write_failed"}

\* _save_cache() (lines 47-53): the table the file holds afterwards
save_cache(table, outcome) ==
    CASE outcome = "ok" -> table
      [] outcome = "open_failed" -> store
      [] outcome = "write_failed" -> EmptyTable

\* json.dump writes a JSON object; a file emptied by open() and not written
\* is not JSON
saved_form(outcome) ==
    CASE outcome = "ok" -> "table"
      [] outcome = "open_failed" -> store_form
      [] outcome = "write_failed" -> "invalid_json"

\* a load that starts every process with an empty cache
LoadCacheIgnoresFile == [form |-> "dict", table |-> EmptyTable, raised |-> ""]

\* _load_cache() (lines 37-45): json.load returns whatever JSON value the
\* file holds; JSONDecodeError and IOError give {}; the UnicodeDecodeError
\* of a file that is not UTF-8 is neither and leaves __init__
load_cache ==
    CASE store_form = "table" ->
             [form |-> "dict", table |-> store, raised |-> ""]
      [] store_form = "array" ->
             [form |-> "array", table |-> EmptyTable, raised |-> ""]
      [] store_form \in {"invalid_json", "unreadable"} ->
             [form |-> "dict", table |-> EmptyTable, raised |-> ""]
      [] store_form = "undecodable" ->
             [form |-> "none", table |-> EmptyTable, raised |-> "UnicodeDecodeError"]

IdleCache ==
    /\ cache = EmptyTable
    /\ cache_form = "dict"
    /\ store = EmptyTable
    /\ store_form = "table"
    /\ now = 0
    /\ duration_hours = 1
    /\ cop = NoOp

\* ArticleCache(cache_file, duration_hours): the table is loaded from the file
InitCache ==
    /\ now = 0
    /\ duration_hours \in 1..MaxDuration
    /\ store \in {EmptyTable, [u \in {"u1"} |-> isoformat(0)]}
    /\ store_form = "table"
    /\ cache = load_cache.table
    /\ cache_form = load_cache.form
    /\ cop = NoOp

\* timestamps that are not times: the empty string
BadTimestamp == <<>>

\* cache files that are not a well-formed table: bytes that are not UTF-8,
\* text that is not JSON, a file that cannot be read, a JSON array, and
\* tables with an entry whose timestamp is not a time
CorruptStores ==
    { [form |-> f, table |-> EmptyTable] :
          f \in {"undecodable", "invalid_json", "unreadable", "array"} }
    \cup
    { [form |-> "table", table |-> [u \in {"u1"} |-> BadTimestamp]],
      [form |-> "table", table |-> [u \in CacheUrls |->
                                       IF u = "u1" THEN isoformat(0)
                                       ELSE BadTimestamp]] }

\* ArticleCache(cache_file, duration_hours) on a corrupt cache file
InitCacheCorrupt ==
    /\ now = 0
    /\ duration_hours \in 1..MaxDuration
    /\ \E c \in CorruptStores : store = c.table /\ store_form = c.form
    /\ cache = load_cache.table
    /\ cache_form = load_cache.form
    /\ cop = [op |-> "load", url |-> "", ret |-> FALSE, at |-> 0,
              raised |-> load_cache.raised, wrote |-> "none"]

\* is_cached(url) on a table (lines 55-67): the value returned, the table
\* left and the exception raised
Lookup(table, u) ==
    IF u \notin DOMAIN table
    THEN [ret |-> FALSE, table |-> table, raised |-> ""]
    ELSE IF ~ValidIso(table[u])
         THEN [ret |-> FALSE, table |-> table, raised |-> "ValueError"]
         ELSE IF Expired(fromisoformat(table[u]), duration_hours)
              THEN [ret |-> FALSE, table |-> DelKey(table, u), raised |-> ""]
              ELSE [ret |-> TRUE, table |-> table, raised |-> ""]

\* is_cached(url) (lines 55-67); `url not in self.cache` is True on an
\* empty JSON array
is_cached(u) ==
    /\ cache_form # "none"
    /\ LET r == IF cache_form = "array"
                THEN [ret |-> FALSE, table |-> cache, raised |-> ""]
                ELSE Lookup(cache, u)
       IN  /\ cache' = r.table
           /\ cop' = [op |-> "is_cached", url |-> u, ret |-> r.ret, at |-> now,
                      raised |-> r.raised, wrote |-> "none"]
    /\ UNCHANGED <<cache_form, store, store_form, now, duration_hours>>
    /\ UNCHANGED notCache

\* add(url) (lines 69-72), with _save_cache (lines 47-53); the item
\* assignment raises TypeError on a JSON array
add(u) ==
    /\ cache_form # "none"
    /\ IF cache_form = "array"
       THEN /\ cop' = [op |-> "add", url |-> u, ret |-> FALSE, at |-> now,
                       raised |-> "TypeError", wrote |-> "none"]
            /\ UNCHANGED <<cache, store, store_form>>
       ELSE /\ cache' = SetKey(cache, u, isoformat(now))
            /\ \E outcome \in WriteOutcomes :
                   /\ store' = save_cache(cache', outcome)
                   /\ store_form' = saved_form(outcome)
                   /\ cop' = [op |-> "add", url |-> u, ret |-> FALSE, at |-> now,
                              raised |-> "", wrote |-> outcome]
    /\ UNCHANGED <<cache_form, now, duration_hours>>
    /\ UNCHANGED notCache

\* time passes
Tick ==
    /\ now < MaxClock
    /\ now' = now + 1
    /\ UNCHANGED <<cache, cache_form, store, store_form, duration_hours, cop>>
    /\ UNCHANGED notCache

\* a new ArticleCache instance on the same file (lines 32-45)
Reload ==
    /\ cache' = load_cache.table
    /\ cache_form' = load_cache.form
    /\ cop' = [op |-> "load", url |-> "", ret |-> FALSE, at |-> now,
               raised |-> load_cache.raised, wrote |-> "none"]
    /\ UNCHANGED <<store, store_form, now, duration_hours>>
    /\ UNCHANGED notCache

NextCache ==
    \/ \E u \in CacheUrls : is_cached(u)
    \/ \E u \in CacheUrls : add(u)
    \/ Tick
    \/ Reload

----------------------------------------------------------------------------
(* Claims about the dedup cache *)

\* C8: is_cached(u) right after add(u) is true; is_cached(u) is true exactly
\* while now <= processed_at + TTL and then leaves the table unchanged (the
\* timestamp is not refreshed); once the TTL has elapsed it returns false and
\* removes u's entry from the table.
C8_CacheLookup ==
    [][\A u \in CacheUrls :
          is_cached(u) =>
              LET present == u \in DOMAIN cache
                  fresh == present /\ now <= fromisoformat(cache[u]) + duration_hours
              IN  /\ cop'.ret <=> fresh
                  /\ fresh => cache' = cache
                  /\ (present /\ ~fresh) =>
                         (u \notin DOMAIN cache' /\ cache' = DelKey(cache, u))
                  /\ (cop.op = "add" /\ cop.url = u /\ cop.at = now) => cop'.ret]_vars

\* a lookup after the TTL elapsed returned false and removed the entry, which
\* the file still holds
C8_Witness ==
    /\ cop.op = "is_cached"
    /\ ~cop.ret
    /\ cop.url \notin DOMAIN cache
    /\ cop.url \in DOMAIN store
    /\ now > fromisoformat(store[cop.url]) + duration_hours

\* C26: if persisting the cache fails during add(u), the failure is not
\* raised to the caller and the in-memory entry is not rolled back:
\* is_cached(u) is true on the same cache instance afterwards, the persisted
\* store keeps its previous content, and the run continues.
C26_FailedWriteKeepsEntry ==
    [][\A u \in CacheUrls :
          (add(u) /\ cop'.wrote \in {"open_failed", "write_failed"}) =>
              /\ cop'.raised = ""
              /\ u \in DOMAIN cache'
              /\ Lookup(cache', u).ret
              /\ store' = store
              /\ store_form' = store_form]_vars

\* the cache file is corrupt: not a JSON object, or a table with an entry
\* whose timestamp is not a time
Corrupt ==
    \/ store_form # "table"
    \/ \E u \in DOMAIN store : ~ValidIso(store[u])

\* C17: whatever the cache file holds (bytes that cannot be decoded, invalid
\* JSON, JSON that is not a URL-to-timestamp table, entries whose timestamp is
\* not a valid time), loading it gives an empty cache and neither the load
\* nor a later is_cached or add raises.
C17_CorruptStoreDegrades ==
    /\ cop.raised = ""
    /\ (cop.op = "load" /\ Corrupt) => (cache_form = "dict" /\ cache = EmptyTable)

\* C18: after every mutation of the cache table through its operations (an
\* add whose write did not fail, the removal of an expired entry by
\* is_cached) the cache file holds exactly the in-memory table, so a new
\* instance loaded from the file has the same entries.
C18_WriteThrough ==
    [][\A u \in CacheUrls :
          (\/ add(u) /\ cop'.wrote = "ok"
           \/ is_cached(u) /\ cache' # cache)
          => (store_form' = "table" /\ store' = cache')]_vars

----------------------------------------------------------------------------
(* The retry policy: src/src/utils/retry.py *)

\* An exception: its class, its status_code attribute, the status_code of
\* its response attribute (0 where the attribute is missing or None), and the
\* attempt that raised it.
NoExc == [cls |-> "none", status_code |-> 0, response_status |-> 0, id |-> 0]

\* exception classes: the builtin TimeoutError (asyncio.TimeoutError is the
\* same class), the requests exceptions, the builtin ConnectionError, and any
\* other Exception
ExcClasses ==
    { "TimeoutError", "requests.Timeout", "requests.ConnectionError",
      "requests.ChunkedEncodingError", "requests.HTTPError",
      "ConnectionError", "Exception" }

StatusCodes == {0, 400, 401, 403, 404, 408, 409, 425, 429, 499, 500, 503, 599}

\* values of the status_code attribute of the exception itself
OwnStatusCodes == {0, 404, 429, 503}

Exceptions ==
    [cls : ExcClasses, status_code : OwnStatusCodes, response_status : StatusCodes,
     id : {0}]

\* RETRYABLE_STATUS_CODES (line 19)
RETRYABLE_STATUS_CODES == {408, 409, 425, 429, 500, 502, 503, 504}

\* `code and (code >= 500 or code in RETRYABLE_STATUS_CODES)`
RetryableCode(code) ==
    code # 0 /\ (code >= 500 \/ code \in RETRYABLE_STATUS_CODES)

\* _has_retryable_status(exception)
has_retryable_status(exc) ==
    RetryableCode(exc.status_code) \/ RetryableCode(exc.response_status)

\* isinstance(exception, requests.exceptions.RequestException)
IsRequestException(exc) ==
    exc.cls \in { "requests.Timeout", "requests.ConnectionError",
                  "requests.ChunkedEncodingError", "requests.HTTPError" }

\* _should_retry(exception)
should_retry(exc) ==
    IF exc.cls = "TimeoutError" THEN TRUE
    ELSE IF exc.cls \in { "requests.Timeout", "requests.ConnectionError",
                          "requests.ChunkedEncodingError" } THEN TRUE
    ELSE IF IsRequestException(exc) THEN has_retryable_status(exc)
    ELSE IF has_retryable_status(exc) THEN TRUE
    ELSE FALSE

\* wait_exponential(multiplier=1, min=1, max=30)
WaitMultiplier == 1

WaitMin == 1

WaitMax == 30

\* wait_exponential: multiplier * 2^(attempt_number - 1), clamped to [min, max]
wait_exponential(n) ==
    Max(Max(0, WaitMin), Min(WaitMultiplier * Pow2(n - 1), WaitMax))

\* reraise=True: the last attempt's exception is raised as it is
Reraise(exc) == exc

IdleRetry ==
    /\ rpc = "returned"
    /\ attempt_number = 1
    /\ waits = <<>>
    /\ lastexc = NoExc
    /\ propagated = NoExc

\* a call of the wrapped function begins
InitRetry ==
    /\ rpc = "call"
    /\ attempt_number = 1
    /\ waits = <<>>
    /\ lastexc = NoExc
    /\ propagated = NoExc

\* the attempt returns a value: the wrapper returns it
AttemptSucceeds ==
    /\ rpc = "call"
    /\ rpc' = "returned"
    /\ UNCHANGED <<attempt_number, waits, lastexc, propagated>>
    /\ UNCHANGED notRetry

\* the attempt raises e: tenacity consults retry, then stop, then waits
AttemptFails(e) ==
    /\ rpc = "call"
    /\ LET exc == [e EXCEPT !.id = attempt_number]
       IN  /\ lastexc' = exc
           /\ IF ~should_retry(exc)
              THEN /\ rpc' = "raised"
                   /\ propagated' = exc
                   /\ UNCHANGED <<attempt_number, waits>>
              ELSE IF Stop(attempt_number)
                   THEN /\ rpc' = "raised"
                        /\ propagated' = Reraise(exc)
                        /\ UNCHANGED <<attempt_number, waits>>
                   ELSE /\ waits' = Append(waits, wait_exponential(attempt_number))
                        /\ attempt_number' = attempt_number + 1
                        /\ UNCHANGED <<rpc, propagated>>
    /\ UNCHANGED notRetry

NextRetry ==
    \/ AttemptSucceeds
    \/ \E e \in Exceptions : AttemptFails(e)

----------------------------------------------------------------------------
(* Claims about the retry policy *)

\* C9: a wrapped call is attempted at most 5 times; the waits between
\* consecutive attempts are 1, 2, 4, 8 and never exceed 30; when the last
\* attempt fails too, the exception that attempt raised reaches the caller
\* unmodified.
C9_BoundedBackoff ==
    /\ attempt_number <= 5
    /\ Len(waits) = attempt_number - 1
    /\ \A k \in DOMAIN waits : waits[k] = <<1, 2, 4, 8>>[k] /\ waits[k] <= 30
    /\ rpc = "raised" =>
           /\ propagated = lastexc
           /\ lastexc.id = attempt_number
           /\ lastexc.cls \in ExcClasses

\* five attempts failed with a retryable error; the fifth error is raised
C9_Witness ==
    /\ rpc = "raised"
    /\ attempt_number = 5
    /\ waits = <<1, 2, 4, 8>>
    /\ lastexc.response_status = 503
    /\ propagated = lastexc

\* transient as the specification words it: a connection or timeout error, or
\* an error carrying an HTTP status in {408, 409, 425, 429} or >= 500
TransientStatus(code) == code \in {408, 409, 425, 429} \/ code >= 500

Transient(exc) ==
    \/ exc.cls \in { "TimeoutError", "requests.Timeout", "requests.ConnectionError",
                     "requests.ChunkedEncodingError", "ConnectionError" }
    \/ TransientStatus(exc.status_code)
    \/ TransientStatus(exc.response_status)

\* C10: after a failed attempt (short of the attempt limit) a further attempt
\* is made if and only if the error is transient; every other error reaches
\* the caller without a retry.
C10_RetryIffTransient ==
    /\ (rpc = "call" /\ attempt_number > 1) => Transient(lastexc)
    /\ (rpc = "raised" /\ attempt_number < StopAfterAttempt) => ~Transient(lastexc)

----------------------------------------------------------------------------
(* The ingestion pipeline: collect_articles, src/src/collect.py *)

\* Bounds of the ingestion model
MaxEntries == 2

MaxRuns == 2

\* `len(body) > 50`
MinBodyLen == 50

UrlA == [scheme |-> HTTPS, host |-> <<"a">>]

UrlSubA == [scheme |-> HTTPS, host |-> <<"B", ".", "a">>]

UrlPrivate == [scheme |-> HTTPS, host |-> <<"a", ".", "a">>]

UrlHttp == [scheme |-> <<"h", "t", "t", "p">>, host |-> <<"a">>]

UrlOther == [scheme |-> HTTPS, host |-> <<"b">>]

\* the article links the feeds may serve
FeedUrls == {UrlA, UrlSubA, UrlPrivate, UrlHttp, UrlOther}

\* what socket.getaddrinfo answers for a host while it resolves
HostAddresses(host) ==
    IF host = <<"a", ".", "a">> THEN {PublicV4, IPv4(10, 0, 0, 5)} ELSE {PublicV4}

\* _host_addresses(hostname): the addresses, or none on socket.gaierror
host_addresses(host) == {HostAddresses(host), {}}

\* allowlist files: missing, empty, comments and blanks only, and one with
\* a comment, a blank line, an entry in upper case and an entry that ends
\* with a dot
MissingFile == [exists |-> FALSE, lines |-> <<>>]

File(lines) == [exists |-> TRUE, lines |-> lines]

AllowFiles ==
    { MissingFile,
      File(<<>>),
      File(<< <<"#", " ", "a">>, <<" ">> >>),
      File(<< <<"#", " ", "b">>, <<>>, <<" ", "A", " ">>, <<"b", ".">> >>) }

RECURSIVE ParseAllowlist(_)
\* the loop of load_allowlist over the lines of the file (lines 83-87)
ParseAllowlist(lines) ==
    IF lines = <<>> THEN {}
    ELSE LET stripped == Strip(Head(lines), " ")
         IN  IF stripped = <<>> \/ Head(stripped) = "#"
             THEN ParseAllowlist(Tail(lines))
             ELSE {Lower(stripped)} \cup ParseAllowlist(Tail(lines))

\* load_allowlist(path): the domains, or the exception raised
load_allowlist(file) ==
    IF ~file.exists THEN [raised |-> "FileNotFoundError", domains |-> {}]
    ELSE IF ParseAllowlist(file.lines) = {}
         THEN [raised |-> "ValueError", domains |-> {}]
         ELSE [raised |-> "", domains |-> ParseAllowlist(file.lines)]

RECURSIVE ConcatStopsAtFailure(_, _)
ConcatStopsAtFailure(fs, failing) ==
    IF fs = <<>> THEN <<>>
    ELSE LET k == Len(fs)
         IN  ConcatStopsAtFailure(SubSeq(fs, 1, k - 1), failing)
                 \o (IF (1..k) \cap failing # {} THEN <<>> ELSE fs[k])

RECURSIVE Concat(_, _)
\* collect_rss_urls: the links of the feeds that loaded, in feed order
Concat(fs, failing) ==
    IF fs = <<>> THEN <<>>
    ELSE LET k == Len(fs)
         IN  Concat(SubSeq(fs, 1, k - 1), failing)
                 \o (IF k \in failing THEN <<>> ELSE fs[k])

RECURSIVE UniqueKeepsLast(_)
UniqueKeepsLast(s) ==
    IF s = <<>> THEN <<>>
    ELSE LET rest == UniqueKeepsLast(Tail(s))
         IN  IF Head(s) \in Range(rest) THEN rest ELSE <<Head(s)>> \o rest

RECURSIVE Unique(_)
\* list(dict.fromkeys(urls)): first occurrences, in order
Unique(s) ==
    IF s = <<>> THEN <<>>
    ELSE LET init == Unique(SubSeq(s, 1, Len(s) - 1))
         IN  IF s[Len(s)] \in Range(init) THEN init ELSE Append(init, s[Len(s)])

RECURSIVE FilterNewKeepsAll(_, _)
FilterNewKeepsAll(s, table) ==
    IF s = <<>> THEN [new |-> <<>>, table |-> table, raised |-> ""]
    ELSE LET r == Lookup(table, Head(s))
             rest == FilterNewKeepsAll(Tail(s), r.table)
         IN  [new |-> <<Head(s)>> \o rest.new, table |-> rest.table,
              raised |-> ""]

RECURSIVE FilterNew(_, _)
\* `[url for url in unique_urls if not cache.is_cached(url)]`: the URLs kept,
\* the table the lookups leave and the exception a lookup raised
FilterNew(s, table) ==
    IF s = <<>> THEN [new |-> <<>>, table |-> table, raised |-> ""]
    ELSE LET r == Lookup(table, Head(s))
             rest == FilterNew(Tail(s), r.table)
         IN  IF r.raised # ""
             THEN [new |-> <<>>, table |-> r.table, raised |-> r.raised]
             ELSE [new |-> (IF r.ret THEN <<>> ELSE <<Head(s)>>) \o rest.new,
                   table |-> rest.table, raised |-> rest.raised]

SecureAppendAlways(secure, u, outcome) == Append(secure, u)

\* `if not allowed: continue` / `secure_urls.append(candidate_url)`
SecureAppend(secure, u, outcome) ==
    IF ~outcome.allowed THEN secure ELSE Append(secure, u)

\* what extract_article_content may give: the lengths of text and summary
Extractions == [text : {0, MinBodyLen, MinBodyLen + 1}, summary : {0, MinBodyLen + 1}]

\* `body = article.get('text') or article.get('summary')`
ChosenBody(x) ==
    IF x.text # 0 THEN [len |-> x.text, field |-> "text"]
    ELSE [len |-> x.summary, field |-> "summary"]

\* `if body and len(body) > 50`
Accepted(x) == ChosenBody(x).len # 0 /\ ChosenBody(x).len > MinBodyLen

CacheCommitAlways(x) == TRUE

\* cache.add(url) is called in the branch that appends the article (lines 267-271)
CacheCommit(x) == Accepted(x)

\* the article `pending` follows, if any: its URL and the time
\* collect_articles accepted it
NoPending == <<>>

Pending(u, t) == <<[url |-> u, at |-> t]>>

\* max_articles_per_run and max_tokens_per_run of the runs (None or a number)
MainArticleLimits == {NoBudget, Budget(1)}

MainTokenLimits == {NoBudget, Budget(212)}

IdleCollect ==
    /\ feeds = <<>>
    /\ allow_file = MissingFile
    /\ cpc = "returned"
    /\ runs = 0
    /\ urls = <<>>
    /\ new_urls = <<>>
    /\ allowed_domains = {}
    /\ secure_urls = <<>>
    /\ ci = 1
    /\ carticles = <<>>
    /\ admitted = {}
    /\ rejected = {}
    /\ fetched = <<>>
    /\ added = {}
    /\ cresult = "none"
    /\ pending = NoPending

InitCollect ==
    /\ feeds \in {<<f1, f2>> : f1 \in SeqsUpTo(FeedUrls, MaxEntries),
                               f2 \in SeqsUpTo({UrlA, UrlOther}, 1)}
    /\ allow_file \in AllowFiles
    /\ cpc = "idle"
    /\ runs = 0
    /\ urls = <<>>
    /\ new_urls = <<>>
    /\ allowed_domains = {}
    /\ secure_urls = <<>>
    /\ ci = 1
    /\ carticles = <<>>
    /\ admitted = {}
    /\ rejected = {}
    /\ fetched = <<>>
    /\ added = {}
    /\ cresult = "none"
    /\ pending = NoPending
    /\ now = 0
    /\ duration_hours = 1
    /\ store = EmptyTable
    /\ store_form = "table"
    /\ cache = load_cache.table
    /\ cache_form = load_cache.form
    /\ cop = NoOp

\* collect_articles is called: collect_rss_urls (lines 147-175, 225), in
\* which feedparser.parse raises for the feeds of `failing`; a feed that
\* fails to load contributes nothing
FetchFeedsWith(failing) ==
    /\ cpc = "idle"
    /\ cresult = "none"
    /\ runs < MaxRuns
    /\ runs' = runs + 1
    /\ urls' = Concat(feeds, failing)
    /\ cpc' = "dedupe"
    /\ new_urls' = <<>>
    /\ allowed_domains' = {}
    /\ secure_urls' = <<>>
    /\ ci' = 1
    /\ carticles' = <<>>
    /\ admitted' = {}
    /\ rejected' = {}
    /\ fetched' = <<>>
    /\ added' = {}
    /\ cresult' = "none"
    /\ UNCHANGED <<pending, feeds, allow_file, cacheVars>>
    /\ UNCHANGED notCollect

FetchFeeds == \E failing \in SUBSET (1..Len(feeds)) : FetchFeedsWith(failing)

\* deduplicate, drop the cached URLs, return [] when none is left (lines 228-238)
FilterUrls ==
    /\ cpc = "dedupe"
    /\ LET r == FilterNew(Unique(urls), cache)
       IN  /\ urls' = Unique(urls)
           /\ new_urls' = r.new
           /\ cache' = r.table
           /\ IF r.raised # ""
              THEN cpc' = "idle" /\ cresult' = "raised"
              ELSE IF r.new = <<>>
                   THEN cpc' = "idle" /\ cresult' = "returned"
                   ELSE cpc' = "allowlist" /\ UNCHANGED cresult
    /\ UNCHANGED <<pending, feeds, allow_file, runs, allowed_domains, secure_urls, ci,
                   carticles, admitted, rejected, fetched, added, cache_form,
                   store, store_form, now, duration_hours, cop>>
    /\ UNCHANGED notCollect

\* load_allowlist; FileNotFoundError and ValueError are re-raised (lines 240-244)
LoadAllowlist ==
    /\ cpc = "allowlist"
    /\ LET r == load_allowlist(allow_file)
       IN  IF r.raised # ""
           THEN cpc' = "idle" /\ cresult' = "raised" /\ UNCHANGED allowed_domains
           ELSE cpc' = "validate" /\ allowed_domains' = r.domains /\ UNCHANGED cresult
    /\ ci' = 1
    /\ UNCHANGED <<pending, feeds, allow_file, runs, urls, new_urls, secure_urls,
                   carticles, admitted, rejected, fetched, added, cacheVars>>
    /\ UNCHANGED notCollect

\* one iteration of `for candidate_url in new_urls` (lines 247-252), and
\* `if not secure_urls: return []` after the last (lines 254-256)
ValidateUrl ==
    /\ cpc = "validate"
    /\ LET u == new_urls[ci]
       IN  \E answer \in host_addresses(normalize_domain(urlparse(u).hostname)) :
           \E addresses \in Orderings(answer) :
               LET outcome == validate_article_url(u, allowed_domains, addresses)
                   secure == SecureAppend(secure_urls, u, outcome)
               IN  /\ secure_urls' = secure
                   /\ admitted' = IF outcome.allowed THEN admitted \cup {u} ELSE admitted
                   /\ rejected' = IF outcome.allowed THEN rejected ELSE rejected \cup {u}
                   /\ IF ci < Len(new_urls)
                      THEN ci' = ci + 1 /\ UNCHANGED <<cpc, cresult>>
                      ELSE IF secure = <<>>
                           THEN ci' = 1 /\ cpc' = "idle" /\ cresult' = "returned"
                           ELSE ci' = 1 /\ cpc' = "extract" /\ UNCHANGED cresult
    /\ UNCHANGED <<pending, feeds, allow_file, runs, urls, new_urls, allowed_domains,
                   carticles, fetched, added, cacheVars>>
    /\ UNCHANGED notCollect

\* after the last iteration of the extraction loop the articles are returned
AfterExtract ==
    IF ci < Len(secure_urls)
    THEN ci' = ci + 1 /\ UNCHANGED <<cpc, cresult>>
    ELSE ci' = 1 /\ cpc' = "idle" /\ cresult' = "returned"

\* one iteration of `for url in secure_urls` in which extract_article_content
\* returns x (lines 259-274): the article is accepted and cached, or too short
ExtractReturns(x) ==
    /\ cpc = "extract"
    /\ LET u == secure_urls[ci]
       IN  /\ fetched' = Append(fetched, u)
           /\ carticles' = IF Accepted(x)
                           THEN Append(carticles, [url |-> u, text |-> ChosenBody(x)])
                           ELSE carticles
           /\ IF CacheCommit(x)
              THEN /\ cache' = SetKey(cache, u, isoformat(now))
                   /\ \E outcome \in WriteOutcomes :
                          /\ store' = save_cache(cache', outcome)
                          /\ store_form' = saved_form(outcome)
                   /\ added' = added \cup {u}
              ELSE UNCHANGED <<cache, store, store_form, added>>
    /\ AfterExtract
    /\ UNCHANGED <<pending, feeds, allow_file, runs, urls, new_urls, allowed_domains,
                   secure_urls, admitted, rejected, cache_form, now,
                   duration_hours, cop>>
    /\ UNCHANGED notCollect

ExtractArticle == \E x \in Extractions : ExtractReturns(x)

\* an iteration in which extract_article_content raises: the URL is skipped
\* (lines 276-277)
ExtractFails ==
    /\ cpc = "extract"
    /\ fetched' = Append(fetched, secure_urls[ci])
    /\ AfterExtract
    /\ UNCHANGED <<pending, feeds, allow_file, runs, urls, new_urls, allowed_domains,
                   secure_urls, carticles, admitted, rejected, added, cacheVars>>
    /\ UNCHANGED notCollect

\* main is done with the articles collect_articles returned: it returns 0
\* when there are none (src/main.py lines 247-250) and summarizes them
\* otherwise; when collect_articles raised, main's handler ends the run
RunOver ==
    /\ cpc = "idle"
    /\ \/ cresult \in {"raised", "summarized"}
       \/ cresult = "returned" /\ carticles = <<>>

\* time passes between runs, up to one hour beyond the TTL: the new process
\* calls collect_articles some hours after the last one ended
TickBetweenRuns ==
    /\ cpc = "idle"
    /\ cresult = "none"
    /\ runs >= 1
    /\ runs < MaxRuns
    /\ now < Min(MaxClock, duration_hours + 1)
    /\ now' = now + 1
    /\ UNCHANGED <<cache, cache_form, store, store_form, duration_hours, cop,
                   collectVars>>
    /\ UNCHANGED notCollect

\* `articles[:max_articles]` under `max_articles and len(articles) > max_articles`
Truncate(arts, max_articles) ==
    IF Truthy(max_articles) /\ Len(arts) > max_articles.v
    THEN SubSeq(arts, 1, max_articles.v)
    ELSE arts

\* the articles main hands to summarize_articles (src/main.py lines 252-261)
\* and the ones summarize_articles schedules: an article is scheduled while
\* the estimates fit the budget, and the loop stops at the first one that
\* does not (src/src/summarize.py lines 191-203)
EstimatesOf(arts) == [k \in DOMAIN arts |-> estimate_tokens_for_article(arts[k].text.len)]

ScheduledCount(arts, max_tok) ==
    IF ~Truthy(max_tok)
    THEN Len(arts)
    ELSE Max(0, CHOOSE k \in 0..Len(arts) :
                    /\ SumSeq(EstimatesOf(arts), k) <= max_tok.v
                    /\ \A j \in (k + 1)..Len(arts) :
                           SumSeq(EstimatesOf(arts), j) > max_tok.v)

\* the URLs that come back with a summary when the jobs of `failing` return
\* None (src/src/summarize.py lines 205-208)
Summarized(arts, max_articles, max_tok, failing) ==
    LET kept == Truncate(arts, max_articles)
    IN  {kept[k].url : k \in (1..ScheduledCount(kept, max_tok)) \ failing}

\* the URLs of the accepted articles that can be left without a summary, over
\* the limits of the run and the jobs that fail
Unsummarized ==
    UNION {{carticles[k].url : k \in DOMAIN carticles}
               \ Summarized(carticles, max_articles, max_tok, failing) :
           <<max_articles, max_tok, failing>> \in
               MainArticleLimits \X MainTokenLimits \X SUBSET (1..Len(carticles))}

\* main truncates the list to max_articles_per_run and calls
\* summarize_articles (src/main.py lines 252-275); none of this touches the
\* cache. `pending` follows one of the articles that got no summary. The
\* last run of a behaviour is followed up to the return of collect_articles.
MainSummarizes ==
    /\ cpc = "idle"
    /\ cresult = "returned"
    /\ carticles # <<>>
    /\ runs < MaxRuns
    /\ cresult' = "summarized"
    /\ \/ UNCHANGED pending
       \/ /\ pending = NoPending
          /\ \E u \in Unsummarized : pending' = Pending(u, now)
    /\ UNCHANGED <<feeds, allow_file, cpc, runs, urls, new_urls, allowed_domains,
                   secure_urls, ci, carticles, admitted, rejected, fetched, added,
                   cacheVars>>
    /\ UNCHANGED notCollect

\* the next run is a new process: the previous run's values are gone and
\* main builds a new ArticleCache from the cache file (src/main.py lines 233-236)
NewProcess ==
    /\ RunOver
    /\ runs >= 1
    /\ runs < MaxRuns
    /\ cache' = load_cache.table
    /\ cache_form' = load_cache.form
    /\ urls' = <<>>
    /\ new_urls' = <<>>
    /\ allowed_domains' = {}
    /\ secure_urls' = <<>>
    /\ ci' = 1
    /\ carticles' = <<>>
    /\ admitted' = {}
    /\ rejected' = {}
    /\ fetched' = <<>>
    /\ added' = {}
    /\ cresult' = "none"
    /\ UNCHANGED <<pending, feeds, allow_file, cpc, runs, store, store_form, now,
                   duration_hours, cop>>
    /\ UNCHANGED notCollect

NextCollect ==
    \/ FetchFeeds
    \/ FilterUrls
    \/ LoadAllowlist
    \/ ValidateUrl
    \/ ExtractArticle
    \/ ExtractFails
    \/ MainSummarizes
    \/ TickBetweenRuns
    \/ NewProcess

----------------------------------------------------------------------------
(* Claims about the ingestion pipeline *)

\* C5: within a run of collect_articles, extract_article_content is called
\* for a URL only after validate_article_url allowed that URL in the same run;
\* a URL rejected for any reason is never fetched.
C5_AdmissionGatesFetch ==
    \A k \in DOMAIN fetched :
        /\ fetched[k] \in admitted
        /\ fetched[k] \notin rejected

\* a run validated an allowed and a refused URL and fetched the allowed one
C5_Witness ==
    /\ cresult = "returned"
    /\ fetched = <<UrlA>>
    /\ admitted = {UrlA}
    /\ UrlPrivate \in rejected

\* the URLs of the articles collected so far
ArticleUrls == {carticles[k].url : k \in DOMAIN carticles}

\* C12: when collect_articles returns, the URLs it added to the dedup cache
\* during the run are exactly the URLs of the returned articles: every
\* returned article is in the cache, and a URL of the run that was rejected by
\* admission control, failed extraction or had a too-short body is not.
C12_AcceptanceCommitsCache ==
    cresult = "returned" =>
        /\ added = ArticleUrls
        /\ \A u \in ArticleUrls : u \in DOMAIN cache
        /\ \A k \in DOMAIN new_urls :
               new_urls[k] \in DOMAIN cache <=> new_urls[k] \in ArticleUrls
        /\ added \cap rejected = {}

\* a run that accepted one URL, fetched another without accepting it and
\* refused a third
C12_Witness ==
    /\ cresult = "returned"
    /\ ArticleUrls = {UrlA}
    /\ added = {UrlA}
    /\ fetched = <<UrlA, UrlSubA>>
    /\ UrlSubA \notin DOMAIN cache
    /\ UrlOther \in rejected

\* every URL of the list is in the table and within its TTL
AllFresh(us, table) ==
    \A k \in DOMAIN us :
        /\ us[k] \in DOMAIN table
        /\ now <= fromisoformat(table[us[k]]) + duration_hours

\* C13: a run of collect_articles after an earlier one, in which the feeds
\* serve no URL that the cache does not hold within its TTL, returns an empty
\* article sequence (and fetches nothing).
C13_Idempotence ==
    [][(FilterUrls /\ runs >= 2 /\ AllFresh(urls, cache)) =>
           /\ cresult' = "returned"
           /\ cpc' = "idle"
           /\ carticles' = <<>>
           /\ new_urls' = <<>>
           /\ fetched' = <<>>
           /\ cache' = cache]_vars

\* the second run returned no article: its feeds served two URLs, both
\* cached by the first run and still fresh
C13_Witness ==
    /\ runs = 2
    /\ cresult = "returned"
    /\ carticles = <<>>
    /\ fetched = <<>>
    /\ Len(urls) = 2
    /\ AllFresh(urls, cache)

\* the body is empty or not longer than the 50-character minimum
TooShort(len) == len <= MinBodyLen

\* C24: when the primary extracted body is too short to be accepted (empty
\* or not longer than the 50-character minimum) and the fallback
\* summary/description is longer than the minimum, collect_articles accepts
\* the article with text set to the fallback; an article is dropped only when
\* neither body exceeds the minimum.
C24_FallbackBody ==
    [][\A x \in Extractions : ExtractReturns(x) =>
           /\ (TooShort(x.text) /\ ~TooShort(x.summary)) =>
                  /\ carticles' = Append(carticles,
                         [url |-> secure_urls[ci],
                          text |-> [len |-> x.summary, field |-> "summary"]])
           /\ (carticles' = carticles) =>
                  (TooShort(x.text) /\ TooShort(x.summary))]_vars

\* load_allowlist raises for the file: it is missing or holds no entry
BadAllowlist == load_allowlist(allow_file).raised # ""

\* collect_rss_urls is the first statement of a run
FeedsFetched == runs >= 1

\* C14: with a missing or empty allowlist file every run aborts with an
\* error, never returning an article sequence, and aborts before any feed is
\* fetched.
C14_BadAllowlistIsFatal ==
    BadAllowlist => (cresult # "returned" /\ ~FeedsFetched)

RECURSIVE InFeedOrder(_, _, _)
\* the links of feeds k, k+1, ... other than those of `failing`: feed order,
\* then entry order
InFeedOrder(fs, failing, k) ==
    IF k > Len(fs) THEN <<>>
    ELSE (IF k \in failing THEN <<>> ELSE fs[k]) \o InFeedOrder(fs, failing, k + 1)

\* the index of the first occurrence of x in s
FirstIndex(s, x) == CHOOSE i \in DOMAIN s : s[i] = x /\ \A j \in 1..(i - 1) : s[j] # x

NoDuplicates(s) == \A i, j \in DOMAIN s : s[i] = s[j] => i = j

\* a holds elements of b, each once, in the order of their first appearance in b
InOrderOfFirstAppearance(a, b) ==
    /\ NoDuplicates(a)
    /\ Range(a) \subseteq Range(b)
    /\ \A i, j \in DOMAIN a : i < j => FirstIndex(b, a[i]) < FirstIndex(b, a[j])

\* the URLs of the articles collected so far, in order
ArticleUrlSeq == [k \in DOMAIN carticles |-> carticles[k].url]

\* C29: collect_articles processes URLs in feed order then entry order,
\* deduplicated keeping the first occurrence: the returned articles contain
\* each URL at most once and appear in the order of first appearance in the
\* feeds, also when some feeds fail to load.
C29_FeedOrderPreserved ==
    /\ [](/\ InOrderOfFirstAppearance(ArticleUrlSeq, urls)
          /\ InOrderOfFirstAppearance(fetched, urls)
          /\ cresult = "returned" => NoDuplicates(urls))
    /\ [][/\ \A failing \in SUBSET (1..Len(feeds)) :
                FetchFeedsWith(failing) => urls' = InFeedOrder(feeds, failing, 1)
          /\ FilterUrls =>
                /\ InOrderOfFirstAppearance(urls', urls)
                /\ Range(urls') = Range(urls)
                /\ InOrderOfFirstAppearance(new_urls', urls')]_vars

\* the first feed serves two links, the second repeats the first of them:
\* two articles, in the order of the first feed
C29_Witness ==
    /\ cresult = "returned"
    /\ feeds = << <<UrlA, UrlSubA>>, <<UrlA>> >>
    /\ urls = <<UrlA, UrlSubA>>
    /\ ArticleUrlSeq = <<UrlA, UrlSubA>>

\* a normalized domain: lowercased, without leading or trailing dots
NormalizedDomain(d) == d = Lower(d) /\ d = Strip(d, ".")

\* C28: every domain in the allowlist loaded for a run is normalized, i.e.
\* lowercased and without leading or trailing dots; lines starting with '#'
\* and blank lines contribute no entry; the loaded set is not modified during
\* the run.
C28_AllowlistNormalized ==
    /\ \A d \in allowed_domains :
           /\ NormalizedDomain(d)
           /\ d # <<>>
           /\ Head(d) # "#"
    /\ cpc \in {"validate", "extract"} =>
           allowed_domains = load_allowlist(allow_file).domains

\* the links served by the feeds other than those of `failing`
LinksOfOthers(failing) ==
    UNION {Range(feeds[k]) : k \in (1..Len(feeds)) \ failing}

\* C25: a failure while fetching one feed, or while extracting one admitted
\* URL, skips only that feed or URL: the entries of all other feeds are still
\* collected, every other admitted URL is still extracted and can be
\* accepted, and collect_articles does not raise because of it (it raises
\* only when load_allowlist does).
C25_FailuresIsolated ==
    /\ [](/\ cresult = "raised" => (BadAllowlist /\ fetched = <<>>)
          /\ (cresult = "returned" /\ secure_urls # <<>>) => fetched = secure_urls)
    /\ [][/\ \A failing \in SUBSET (1..Len(feeds)) :
                FetchFeedsWith(failing) =>
                    /\ Range(urls') = LinksOfOthers(failing)
                    /\ cpc' = "dedupe"
                    /\ cresult' # "raised"
          /\ ExtractFails =>
                /\ fetched' = Append(fetched, secure_urls[ci])
                /\ carticles' = carticles
                /\ cache' = cache
                /\ cresult' # "raised"
                /\ IF ci < Len(secure_urls)
                   THEN cpc' = "extract" /\ ci' = ci + 1
                   ELSE cresult' = "returned"]_vars

\* the second feed failed and its link is missing; the two links of the
\* first feed were admitted and extracted, the first without being accepted,
\* the second, after it, accepted
C25_Witness ==
    /\ cresult = "returned"
    /\ runs = 1
    /\ feeds = << <<UrlA, UrlSubA>>, <<UrlOther>> >>
    /\ urls = <<UrlA, UrlSubA>>
    /\ fetched = <<UrlA, UrlSubA>>
    /\ ArticleUrls = {UrlSubA}

\* the article `pending` follows was accepted within the TTL: is_cached
\* expires an entry only when more than duration_hours have passed
WithinTTL == pending # NoPending /\ now <= pending[1].at + duration_hours

\* the cache file holds the entry the acceptance at time t wrote for the URL
\* (or a later one), not an older entry a failed write left in place
Persisted(u, t) ==
    /\ store_form = "table"
    /\ u \in DOMAIN store
    /\ fromisoformat(store[u]) >= t

\* C21 (as stated): an article accepted by ingestion but not summarized in
\* that run is never retried: every later run within the TTL drops its URL at
\* the cache check.
C21_NeverRetried ==
    [][(FilterUrls /\ WithinTTL) => pending[1].url \notin Range(new_urls')]_vars

\* C21 (amended): an article accepted by ingestion but not summarized in that
\* run is dropped at the cache check by every later run within the TTL that
\* finds the entry of that acceptance in the cache file; main never puts it
\* back, whatever kept it from being summarized.
C21_NotRetriedWhilePersisted ==
    [][(FilterUrls /\ WithinTTL /\ Persisted(pending[1].url, pending[1].at)) =>
            pending[1].url \notin Range(new_urls')]_vars

\* the second run meets the URL of an article the first run accepted and did
\* not summarize, within the TTL, and drops it
C21_Witness ==
    /\ runs = 2
    /\ cpc = "idle"
    /\ cresult = "returned"
    /\ pending = Pending(UrlA, 0)
    /\ now = 1
    /\ Persisted(UrlA, 0)
    /\ UrlA \in Range(urls)
    /\ new_urls = <<>>
    /\ fetched = <<>>

----------------------------------------------------------------------------
(* One summarization job: _summarize_with_limit, summarize_article and the *)
(* retried LLMClient.generate, src/src/summarize.py                         *)

IdleJob ==
    /\ jpc = "done"
    /\ jresult = "pending"
    /\ jfailed = 0
    /\ jerror = ""

\* the job holds a slot and summarize_article starts in a worker thread
InitJob ==
    /\ jpc = "prompt"
    /\ jresult = "pending"
    /\ jfailed = 0
    /\ jerror = ""

\* `except Exception` of _summarize_with_limit (lines 182-189): the error
\* that left summarize_article is counted and the job returns None
CountFailure(origin) ==
    /\ jfailed' = IncFailed(jfailed)
    /\ jresult' = "none"
    /\ jerror' = origin
    /\ jpc' = "done"

\* summarize_article loads and renders the prompts and calls the retried
\* llm_client.generate (lines 95-106)
CallGenerate ==
    /\ jpc = "prompt"
    /\ jpc' = "generate"
    /\ rpc' = "call"
    /\ attempt_number' = 1
    /\ waits' = <<>>
    /\ lastexc' = NoExc
    /\ propagated' = NoExc
    /\ UNCHANGED <<jresult, jfailed, jerror>>
    /\ UNCHANGED notJob

\* load_prompt or render_prompt raises before the LLM is called (lines 95-103)
PromptFails ==
    /\ jpc = "prompt"
    /\ CountFailure("prompt")
    /\ UNCHANGED retryVars
    /\ UNCHANGED notJob

\* generate returned: the response is parsed and the summary returned
\* (lines 108-129)
SummaryReturned ==
    /\ jpc = "generate"
    /\ rpc = "returned"
    /\ jresult' = "summary"
    /\ jpc' = "done"
    /\ UNCHANGED <<jfailed, jerror, retryVars>>
    /\ UNCHANGED notJob

\* generate returned but parsing the response raises, e.g. a response
\* without text (lines 109, 131-133)
ParseFails ==
    /\ jpc = "generate"
    /\ rpc = "returned"
    /\ CountFailure("parse")
    /\ UNCHANGED retryVars
    /\ UNCHANGED notJob

\* the retry wrapper raised: summarize_article logs and re-raises (lines 131-133)
GenerateRaised ==
    /\ jpc = "generate"
    /\ rpc = "raised"
    /\ CountFailure("llm")
    /\ UNCHANGED retryVars
    /\ UNCHANGED notJob

NextJob ==
    \/ CallGenerate
    \/ PromptFails
    \/ AttemptSucceeds
    \/ \E e \in Exceptions : AttemptFails(e)
    \/ SummaryReturned
    \/ ParseFails
    \/ GenerateRaised

\* C19: failed attempts of the LLM call do not count: a job whose call fails
\* with a retried error fewer than 5 times and then succeeds produces a
\* summary and adds nothing to failed; a job adds to failed only for an error
\* that left the retry policy (the fifth failure, or an error that is not
\* retried) or arose outside the LLM call, and it adds one, whatever the
\* number of attempts.
C19_RetriesInsideJob ==
    /\ jfailed \in {0, 1}
    /\ (jpc = "generate" /\ rpc = "call") => (jfailed = 0 /\ jresult = "pending")
    /\ (jpc = "done" /\ rpc = "returned" /\ jerror = "") =>
           /\ jresult = "summary"
           /\ jfailed = 0
           /\ Len(waits) = attempt_number - 1
           /\ attempt_number - 1 < StopAfterAttempt
    /\ jfailed = 1 =>
           /\ jpc = "done"
           /\ jresult = "none"
           /\ jerror \in {"prompt", "parse", "llm"}
           /\ jerror = "llm" =>
                  /\ rpc = "raised"
                  /\ propagated = lastexc
                  /\ attempt_number = StopAfterAttempt \/ ~should_retry(lastexc)
    /\ jresult = "summary" => jfailed = 0

\* four retried failures, then the fifth attempt succeeds: a summary, and
\* nothing counted as failed
C19_Witness ==
    /\ jpc = "done"
    /\ jresult = "summary"
    /\ jfailed = 0
    /\ attempt_number = StopAfterAttempt
    /\ waits = <<1, 2, 4, 8>>
    /\ should_retry(lastexc)

----------------------------------------------------------------------------
(* The entry point: main, src/main.py *)

\* an environment variable: unset, an integer literal, or other text
EnvUnset == [kind |-> "unset", v |-> 0]

EnvInt(n) == [kind |-> "int", v |-> n]

EnvGarbage == [kind |-> "garbage", v |-> 0]

\* values of MAX_ARTICLES_PER_RUN and of MAX_TOKENS_PER_RUN
ArticleEnv == {EnvUnset, EnvInt(2)}

TokenEnv == {EnvUnset, EnvInt(0), EnvInt(250), EnvInt(600), EnvGarbage}

\* _parse_positive_int(env_name): None for an unset, empty, zero or
\* negative value, ValueError for text that is not an integer
parse_positive_int(e) ==
    IF e.kind = "unset" THEN [raised |-> FALSE, value |-> NoBudget]
    ELSE IF e.kind = "int" /\ e.v = 0 THEN [raised |-> FALSE, value |-> NoBudget]
    ELSE IF e.kind = "garbage" THEN [raised |-> TRUE, value |-> NoBudget]
    ELSE [raised |-> FALSE, value |-> IF e.v > 0 THEN Budget(e.v) ELSE NoBudget]

\* text lengths of the articles collect_articles returns: an accepted body
\* has more than 50 characters
CollectedLens == {MinBodyLen + 1, 400}

NoConfig == [max_articles_per_run |-> NoBudget, max_tokens_per_run |-> NoBudget]

\* the metrics dict at the start of main (lines 214-224)
NoMetrics ==
    [articles_collected |-> 0, articles_after_limit |-> 0,
     summaries_generated |-> 0, summaries_failed |-> 0,
     tokens_estimated |-> 0, token_limit_reached |-> FALSE]

IdleMain ==
    /\ mpc = "done"
    /\ config = NoConfig
    /\ metrics = NoMetrics
    /\ called = {}
    /\ caught = ""
    /\ error_draft = "none"
    /\ exit_code = -1

\* main enters its try block (lines 213-227)
InitMain ==
    /\ mpc = "config"
    /\ config = NoConfig
    /\ metrics = NoMetrics
    /\ called = {}
    /\ caught = ""
    /\ error_draft = "none"
    /\ exit_code = -1

\* `except Exception` (lines 344-359): the error draft is attempted, a
\* failure to save it is swallowed, and main returns 1
Handler(step) ==
    /\ caught' = step
    /\ \E saved \in BOOLEAN : error_draft' = IF saved THEN "saved" ELSE "failed"
    /\ exit_code' = 1
    /\ mpc' = "done"

\* load_config and the ArticleCache (lines 229-236)
LoadConfig ==
    /\ mpc = "config"
    /\ \E ea \in ArticleEnv, et \in TokenEnv :
           LET a == parse_positive_int(ea)
               t == parse_positive_int(et)
           IN  IF a.raised \/ t.raised
               THEN Handler("config") /\ UNCHANGED config
               ELSE /\ config' = [max_articles_per_run |-> a.value,
                                  max_tokens_per_run |-> t.value]
                    /\ mpc' = "collect"
                    /\ UNCHANGED <<caught, error_draft, exit_code>>
    /\ UNCHANGED <<metrics, called, sumVars>>
    /\ UNCHANGED notMain

\* `if not articles: return 0` (lines 247-250)
AfterCollect(arts) == IF arts = <<>> THEN "nothing_to_do" ELSE "summarize"

\* Step 1 (lines 240-262): collect_articles returns; with no article main
\* returns 0, otherwise the list is truncated and summarize_articles is
\* called (lines 266-270, src/src/summarize.py lines 155-164)
Collect ==
    /\ mpc = "collect"
    /\ \E arts \in SeqsUpTo(CollectedLens, MaxArticles) :
           LET kept == Truncate(arts, config.max_articles_per_run)
           IN  IF AfterCollect(arts) = "nothing_to_do"
               THEN /\ metrics' = [metrics EXCEPT !.articles_collected = Len(arts)]
                    /\ called' = called \cup {"collect"}
                    /\ exit_code' = 0
                    /\ mpc' = "done"
                    /\ UNCHANGED sumVars
               ELSE /\ metrics' = [metrics EXCEPT !.articles_collected = Len(arts),
                                                  !.articles_after_limit = Len(kept)]
                    /\ called' = called \cup {"collect", "summarize"}
                    /\ mpc' = "summarize"
                    /\ articles' = kept
                    /\ max_tokens' = config.max_tokens_per_run
                    /\ spc' = IF Len(kept) = 0 THEN "gather" ELSE "schedule"
                    /\ si' = 1
                    /\ budget_used' = 0
                    /\ total_failed' = 0
                    /\ skipped_due_to_budget' = 0
                    /\ scheduled_tasks' = <<>>
                    /\ started' = 0
                    /\ job' = [i \in 1..Len(kept) |-> "unscheduled"]
                    /\ semaphore' = SUMMARY_CONCURRENCY
                    /\ waiters' = <<>>
                    /\ retried' = [i \in 1..Len(kept) |-> 0]
                    /\ sresult' = NoResult
                    /\ UNCHANGED exit_code
    /\ UNCHANGED <<config, caught, error_draft>>
    /\ UNCHANGED notMain

AfterSummarizeAlwaysCompose(summaries) == "compose"

\* `if not summaries: return 1` (lines 277-280)
AfterSummarize(summaries) == IF summaries = <<>> THEN "no_summaries" ELSE "compose"

\* summarize_articles returned (lines 271-286): the counters are copied to
\* the metrics; without a summary main returns 1; failures and a reached
\* budget are logged
SummarizeReturns ==
    /\ mpc = "summarize"
    /\ sresult.returned
    /\ metrics' = [metrics EXCEPT
                       !.summaries_generated = Len(sresult.summaries),
                       !.summaries_failed = sresult.failed,
                       !.tokens_estimated = sresult.estimated_tokens,
                       !.token_limit_reached = limit_reached(sresult)]
    /\ IF AfterSummarize(sresult.summaries) = "no_summaries"
       THEN exit_code' = 1 /\ mpc' = "done"
       ELSE mpc' = "compose" /\ UNCHANGED exit_code
    /\ UNCHANGED <<config, called, caught, error_draft, sumVars>>
    /\ UNCHANGED notMain

\* Step 3: compose_article returns (lines 289-290)
Compose ==
    /\ mpc = "compose"
    /\ called' = called \cup {"compose"}
    /\ mpc' = "save"
    /\ UNCHANGED <<config, metrics, caught, error_draft, exit_code, sumVars>>
    /\ UNCHANGED notMain

\* Step 4: save_draft returns (lines 293-294)
SaveDraft ==
    /\ mpc = "save"
    /\ called' = called \cup {"save"}
    /\ mpc' = "publish"
    /\ UNCHANGED <<config, metrics, caught, error_draft, exit_code, sumVars>>
    /\ UNCHANGED notMain

\* Step 5: the article is published, or publishing is skipped, and main
\* returns 0 (lines 297-342)
Publish ==
    /\ mpc = "publish"
    /\ called' = called \cup {"publish"}
    /\ exit_code' = 0
    /\ mpc' = "done"
    /\ UNCHANGED <<config, metrics, caught, error_draft, sumVars>>
    /\ UNCHANGED notMain

\* a step of the try block raises an Exception: load_config or ArticleCache,
\* collect_articles, summarize_articles before any job is scheduled
\* (LLMClient, src/src/summarize.py line 159), compose_article, save_draft
\* or the publisher
StepRaises ==
    /\ \/ mpc \in {"config", "collect", "compose", "save", "publish"}
       \/ mpc = "summarize" /\ spc = "schedule" /\ si = 1
    /\ Handler(mpc)
    /\ called' = IF mpc \in {"config", "summarize"} THEN called ELSE called \cup {mpc}
    /\ spc' = IF mpc = "summarize" THEN "raised" ELSE spc
    /\ UNCHANGED <<config, metrics, articles, max_tokens, si, budget_used,
                   total_failed, skipped_due_to_budget, scheduled_tasks,
                   started, job, semaphore, waiters, retried, sresult>>
    /\ UNCHANGED notMain

NextMain ==
    \/ LoadConfig
    \/ Collect
    \/ ConsiderArticle
    \/ StartTask
    \/ WakeWaiter
    \/ \E i \in 1..Len(articles) : CompleteOk(i)
    \/ \E i \in 1..Len(articles) : CompleteRaise(i)
    \/ ReturnResult
    \/ SummarizeReturns
    \/ Compose
    \/ SaveDraft
    \/ Publish
    \/ StepRaises

\* C15: main always ends with an exit code. A run whose ingestion yields no
\* article returns 0 without calling the summarizer; a run with at least one
\* article and no successful summary returns 1; a run in which some but not
\* all summaries fail goes on to composition and reports the failures in the
\* counters alone; an exception raised in any step is caught and gives 1.
C15_MainOutcomes ==
    /\ (mpc = "done") <=> (exit_code \in {0, 1})
    /\ exit_code \in {-1, 0, 1}
    /\ (mpc = "done" /\ "collect" \in called /\ caught = ""
            /\ metrics.articles_collected = 0) =>
           (exit_code = 0 /\ "summarize" \notin called /\ ~sresult.returned)
    /\ (mpc = "done" /\ metrics.articles_collected >= 1 /\ sresult.returned
            /\ sresult.summaries = <<>>) =>
           (exit_code = 1 /\ "compose" \notin called)
    /\ (mpc # "summarize" /\ sresult.returned /\ sresult.summaries # <<>>
            /\ sresult.failed > 0) =>
           /\ mpc = "compose" \/ "compose" \in called
           /\ metrics.summaries_failed = sresult.failed
           /\ metrics.summaries_generated = Len(sresult.summaries)
           /\ (mpc = "done" /\ caught = "") => exit_code = 0
    /\ caught # "" => (mpc = "done" /\ exit_code = 1)
    /\ (mpc = "done" /\ exit_code = 0) => caught = ""

\* some but not all summaries failed and the run completed with exit code 0
C15_Witness ==
    /\ mpc = "done"
    /\ exit_code = 0
    /\ "publish" \in called
    /\ metrics.summaries_failed = 1
    /\ metrics.summaries_generated = 2

\* C16: when the token budget skips articles, summarize_articles returns
\* normally with the skip in skipped_due_to_budget and limit_reached, and the
\* run does not end in the failure outcome because of the budget: with no
\* failed job and no exception the run ends with exit code 0, also when the
\* first article alone exceeds the budget and nothing is scheduled.
C16_BudgetIsNotAnError ==
    (sresult.returned /\ Len(scheduled_tasks) < Len(articles)) =>
        /\ sresult.skipped_due_to_budget = Len(articles) - Len(scheduled_tasks)
        /\ limit_reached(sresult)
        /\ (mpc = "done" /\ sresult.failed = 0 /\ caught = "") => exit_code = 0

----------------------------------------------------------------------------
(* The response parsing of summarize_article, src/src/summarize.py         *)
(* The response is a string: a sequence of characters.                     *)

\* Bounds of the parsing model: the number of lines of a response
MaxLines == 4

\* the default of _summary_max_points (lines 140, 144, 145)
DefaultMaxPoints == 8

\* a cleaned line is a point if it has more than 10 characters (line 115)
MinPointLen == 10

\* fewer than 3 points: the raw response is used (line 121)
MinPoints == 3

\* the characters str.strip() removes, of the alphabet used here
Whitespace == {" ", "\n"}

\* line.lstrip('-*...'): the bullet characters of the alphabet used here
BulletChars == {"-", "*"}

\* .lstrip('0123456789.')
NumberChars == {"0", "1", "2", "3", "4", "5", "6", "7", "8", "9", "."}

RECURSIVE LStripSet(_, _)
\* str.lstrip(chars)
LStripSet(str, chars) ==
    IF str # <<>> /\ Head(str) \in chars THEN LStripSet(Tail(str), chars) ELSE str

RECURSIVE RStripSet(_, _)
\* str.rstrip(chars)
RStripSet(str, chars) ==
    IF str # <<>> /\ str[Len(str)] \in chars
    THEN RStripSet(SubSeq(str, 1, Len(str) - 1), chars)
    ELSE str

\* str.strip()
StripWs(str) == RStripSet(LStripSet(str, Whitespace), Whitespace)

RECURSIVE Split(_, _)
\* str.split(sep): at least one piece, the pieces between the separators
Split(str, sep) ==
    IF \A k \in DOMAIN str : str[k] # sep THEN <<str>>
    ELSE LET k == CHOOSE j \in DOMAIN str :
                      str[j] = sep /\ \A h \in 1..(j - 1) : str[h] # sep
         IN  <<SubSeq(str, 1, k - 1)>> \o Split(SubSeq(str, k + 1, Len(str)), sep)

RECURSIVE Join(_, _)
\* sep.join(pieces)
Join(pieces, sep) ==
    IF pieces = <<>> THEN <<>>
    ELSE IF Len(pieces) = 1 THEN pieces[1]
    ELSE pieces[1] \o <<sep>> \o Join(Tail(pieces), sep)

\* _summary_max_points (lines 136-145): 8 unless SUMMARY_MAX_POINTS is the
\* text of a positive integer
summary_max_points(e) ==
    IF e.kind = "int" /\ e.v > 0 THEN e.v ELSE DefaultMaxPoints

\* `[line.strip() for line in response.split('\n') if line.strip()]` (line 109)
ResponseLines(resp) ==
    LET pieces == Split(resp, "\n")
        stripped == [k \in DOMAIN pieces |-> StripWs(pieces[k])]
    IN  SelectSeq(stripped, LAMBDA l : l # <<>>)

\* `line.lstrip('-*...').lstrip('0123456789.').strip()` (line 114)
Cleaned(line) == StripWs(LStripSet(LStripSet(line, BulletChars), NumberChars))

\* `if cleaned and len(cleaned) > 10` (line 115)
IsPoint(cleaned) == cleaned # <<>> /\ Len(cleaned) > MinPointLen

\* the loop of lines 112-116
ParsedPoints(resp) ==
    LET lines == ResponseLines(resp)
        cleaned == [k \in DOMAIN lines |-> Cleaned(lines[k])]
    IN  SelectSeq(cleaned, IsPoint)

\* `summary_points[:max_points]` (line 119)
Truncated(points, max_points) == SubSeq(points, 1, Min(Len(points), max_points))

UseRawOnlyWhenEmpty(points) == Len(points) < 1

\* `if len(summary_points) < 3` (line 121)
UseRaw(points) == Len(points) < MinPoints

\* the 'summary' of the record summarize_article returns (lines 108-129)
SummaryOf(resp, max_points) ==
    LET points == Truncated(ParsedPoints(resp), max_points)
    IN  IF UseRaw(points) THEN <<resp>> ELSE points

Rep(c, n) == [k \in 1..n |-> c]

\* the lines responses are made of: an empty line, a blank line, text of 11
\* and of 10 characters, a bulleted and a numbered text of 11 characters
LineShapes ==
    { <<>>,
      <<" ">>,
      Rep("x", MinPointLen + 1),
      Rep("x", MinPointLen),
      <<"-", " ">> \o Rep("x", MinPointLen + 1),
      <<"1", ".", " ">> \o Rep("x", MinPointLen + 1) }

\* the responses: up to MaxLines lines joined by newlines ("" included)
Responses == {Join(ls, "\n") : ls \in SeqsUpTo(LineShapes, MaxLines)}

\* values of SUMMARY_MAX_POINTS
PointsEnv == {EnvUnset, EnvInt(0), EnvInt(2), EnvInt(3), EnvGarbage}

IdleParse ==
    /\ ppc = "returned"
    /\ max_points_env = EnvUnset
    /\ response = <<>>
    /\ summary_points = <<>>

\* llm_client.generate returned `response` without raising (line 106)
InitParse ==
    /\ ppc = "call"
    /\ max_points_env \in PointsEnv
    /\ response \in Responses
    /\ summary_points = <<>>

\* summarize_article parses the response and returns the record (lines 108-129)
ParseResponse ==
    /\ ppc = "call"
    /\ summary_points' = SummaryOf(response, summary_max_points(max_points_env))
    /\ ppc' = "returned"
    /\ UNCHANGED <<max_points_env, response>>
    /\ UNCHANGED notParse

NextParse == ParseResponse

----------------------------------------------------------------------------
(* Claims about the response parsing *)

\* C22: every SummaryRecord produced from a successful LLM response has at
\* least one and at most max_points (default 8) summary points, at least one
\* of which is non-empty; when parsing (after truncation to max_points)
\* leaves fewer than 3 usable points, the summary is exactly one point equal
\* to the whole raw response.
C22_PointsWellFormed ==
    (ppc = "returned" /\ max_points_env \in PointsEnv) =>
        LET max_points == summary_max_points(max_points_env)
        IN  /\ Len(summary_points) >= 1
            /\ Len(summary_points) <= max_points
            /\ \E k \in DOMAIN summary_points : summary_points[k] # <<>>
            /\ Len(Truncated(ParsedPoints(response), max_points)) < 3 =>
                   summary_points = <<response>>

\* a line that starts with a bullet character, a digit or a dot
StartsWithMarker(line) ==
    line # <<>> /\ Head(line) \in (BulletChars \cup NumberChars)

\* the response has no bullet or numbering marker at the start of a line
NoMarkers(resp) ==
    LET pieces == Split(resp, "\n")
    IN  \A k \in DOMAIN pieces : ~StartsWithMarker(StripWs(pieces[k]))

\* the number of lines with more than 10 characters between their blanks
LongLines(resp) ==
    LET pieces == Split(resp, "\n")
    IN  Cardinality({k \in DOMAIN pieces : Len(StripWs(pieces[k])) > 10})

\* C23 (as stated): for every generated response that contains no bullet or
\* numbering markers, summarize_article yields a SummaryRecord with exactly
\* one summary point, equal to the raw response.
C23_NoMarkersOnePoint ==
    (ppc = "returned" /\ response \in Responses /\ NoMarkers(response)) =>
        summary_points = <<response>>

\* C23 (amended): for every generated response that contains no bullet or
\* numbering markers and has fewer than three lines of more than 10
\* characters, summarize_article yields a SummaryRecord with exactly one
\* summary point, equal to the raw response.
C23_FewPlainLinesOnePoint ==
    (ppc = "returned" /\ response \in Responses /\ NoMarkers(response)
        /\ LongLines(response) < 3) =>
        summary_points = <<response>>

\* two plain lines, one of them long enough to be a point: the summary is
\* the raw two-line response
C23_Witness ==
    /\ ppc = "returned"
    /\ response = Rep("x", 11) \o <<"\n">> \o Rep("x", 10)
    /\ NoMarkers(response)
    /\ summary_points = <<response>>

----------------------------------------------------------------------------
(* Specifications *)

IdleSummarize ==
    /\ articles = <<>>
    /\ max_tokens = NoBudget
    /\ spc = "returned"
    /\ si = 1
    /\ budget_used = 0
    /\ total_failed = 0
    /\ skipped_due_to_budget = 0
    /\ scheduled_tasks = <<>>
    /\ started = 0
    /\ job = <<>>
    /\ semaphore = SUMMARY_CONCURRENCY
    /\ waiters = <<>>
    /\ retried = <<>>
    /\ sresult = NoResult

InitSpecSummarize ==
    InitSummarize /\ IdleValidate /\ IdleCache /\ IdleRetry /\ IdleCollect
        /\ IdleMain /\ IdleJob /\ IdleParse

SpecSummarize == InitSpecSummarize /\ [][NextSummarize]_vars

\* the runs whose termination is checked: articles of one length, with no
\* budget or one that admits only the first of them
InitSpecSummarizeFair ==
    /\ InitSpecSummarize
    /\ \A k \in DOMAIN articles : articles[k] = 400
    /\ max_tokens \in {NoBudget, Budget(450)}

SpecSummarizeFair ==
    InitSpecSummarizeFair /\ [][NextSummarizeRun]_vars /\ FairSummarize

InitSpecValidate ==
    IdleSummarize /\ InitValidate /\ IdleCache /\ IdleRetry /\ IdleCollect
        /\ IdleMain /\ IdleJob /\ IdleParse

SpecValidate == InitSpecValidate /\ [][NextValidate]_vars

InitSpecCache ==
    IdleSummarize /\ IdleValidate /\ InitCache /\ IdleRetry /\ IdleCollect
        /\ IdleMain /\ IdleJob /\ IdleParse

SpecCache == InitSpecCache /\ [][NextCache]_vars

InitSpecCacheCorrupt ==
    IdleSummarize /\ IdleValidate /\ InitCacheCorrupt /\ IdleRetry /\ IdleCollect
        /\ IdleMain /\ IdleJob /\ IdleParse

SpecCacheCorrupt == InitSpecCacheCorrupt /\ [][NextCache]_vars

InitSpecRetry ==
    IdleSummarize /\ IdleValidate /\ IdleCache /\ InitRetry /\ IdleCollect
        /\ IdleMain /\ IdleJob /\ IdleParse

SpecRetry == InitSpecRetry /\ [][NextRetry]_vars

InitSpecCollect ==
    IdleSummarize /\ IdleValidate /\ IdleRetry /\ InitCollect
        /\ IdleMain /\ IdleJob /\ IdleParse

SpecCollect == InitSpecCollect /\ [][NextCollect]_vars

InitSpecMain ==
    IdleSummarize /\ IdleValidate /\ IdleCache /\ IdleRetry /\ IdleCollect
        /\ InitMain /\ IdleJob /\ IdleParse

SpecMain == InitSpecMain /\ [][NextMain]_vars

InitSpecJob ==
    IdleSummarize /\ IdleValidate /\ IdleCache /\ IdleRetry /\ IdleCollect
        /\ IdleMain /\ InitJob /\ IdleParse

SpecJob == InitSpecJob /\ [][NextJob]_vars

InitSpecParse ==
    IdleSummarize /\ IdleValidate /\ IdleCache /\ IdleRetry /\ IdleCollect
        /\ IdleMain /\ IdleJob /\ InitParse

SpecParse == InitSpecParse /\ [][NextParse]_vars

====
